---------------------------- MODULE Spec2Model ----------------------------
(***************************************************************************)
(* A model of terraflow (flowave-io/terraflow): the state patcher          *)
(* (internal/terraform/state.go and the targeted patch), the sanitizer,    *)
(* and the persistent terraform-console evaluator.                         *)
(*                                                                         *)
(* JSON-like values (Go's any after json.Unmarshal / convertCtyToGo) are   *)
(* tagged records:                                                         *)
(*   [k |-> "null"]                  nil                                   *)
(*   [k |-> "bool", b |-> BOOLEAN]   bool                                  *)
(*   [k |-> "num",  n |-> Nat]       float64                               *)
(*   [k |-> "str",  s |-> chars]     string, a sequence of 1-char strings  *)
(*   [k |-> "seq",  e |-> values]    []any                                 *)
(*   [k |-> "map",  m |-> function]  map[string]any                        *)
(***************************************************************************)
EXTENDS Integers, Sequences, FiniteSets, TLC

VARIABLES
    \* ---- sanitizer harness (pure function sanitizeValue) ----
    sanX,        \* the input value
    sanY,        \* sanitizeValue(sanX), once applied
    sanZ,        \* sanitizeValue(sanY), once applied
    sanPc,       \* 0: nothing applied, 1: applied once, 2: applied twice
    \* ---- persistent evaluator (persistentEvaluator, one pool entry) ----
    peStarted,   \* p.started
    peClosed,    \* p.closed
    procAlive,   \* the terraform console subprocess of p.cmd is running
    stdinQ,      \* lines written to p.stdin the subprocess has not read yet
    stdoutQ,     \* lines on p.stdout the reader has not scanned yet
    waiters,     \* p.waiters: the ids registered (each with its own channel)
    chanBuf,     \* per id: the content of its channel (capacity 1)
    chanClosed,  \* per id: its channel is closed
    rlPc,        \* readLoop: "none" (not running), "scan", "send", "drain"
    rlLine,      \* readLoop: the line being delivered
    cPc,         \* per caller: its place in EvaluateJSON
    cId,         \* per caller: the id its call generated
    cExpr,       \* per caller: the expression of its call
    cGot,        \* per caller: the line its channel handed it
    cRes,        \* per caller: what its last call returned, [ok, v]
    nextId,      \* the ids uuid.NewString() has handed out so far
    \* ---- state patcher ----
    cfg,         \* per .tf file: the resource blocks it declares, in order
    modIndex,    \* .terraform/modules/modules.json of the scratch directory
    dirty,       \* the .tf files modified since the refresher's last scan
    stFile,      \* the state file: exists, version, serial, lineage, resources
    evalMemo,    \* the keys of evalMemo
    jPc,         \* per file: its job of the running batch, "idle", "run", "write"
    jIdx,        \* per file: the block its job is at
    jNew,        \* per file: the state its worker is about to write
    started,     \* the console command has hydrated the state
    obs,         \* what the last step of the patcher did
    \* ---- scratch synchronizer ----
    src,         \* per tracked path of ROOT: present, mod time, size, has a backend block
    mirror,      \* per path: the version of the file mirrored under SCRATCH
    manifest,    \* SCRATCH/.tf-manifest.json: exists, entries
    clock,       \* the latest modification time handed out
    syncCalls,   \* the Sync calls made so far
    syncSeen,    \* the source tree as the last Sync call found it
    syncRet,     \* what the last Sync call returned: changed, changedTF
    syncWrites,  \* the files the last Sync call wrote or removed under SCRATCH
    \* ---- completion (pure function CompletionCandidates) ----
    ccLine,      \* line
    ccCursor,    \* cursorIndex
    ccIndex,     \* the SymbolIndex
    ccOut,       \* candidates, start, end, once applied
    ccPc,        \* 0: not applied, 1: applied
    \* ---- watcher (WatchTerraformFilesNotifying) ----
    wFiles,      \* per watched path: present, known to last, modified after last
    wPending,    \* pending
    wSince,      \* time.Since(lastFire), in units of 10 ms, counted up to debounce
    wUntilTick,  \* the time until ticker.C delivers again, in units of 10 ms
    refreshCh,   \* the signals buffered in refreshCh (capacity 1)
    wBurst,      \* the polls that found a change since the last signal
    \* ---- refresher goroutine of RunREPL ----
    rfPc,        \* where the refresher stands in its loop body
    rfSrc,       \* the versions of the .tf and of the .tfvars files under cwd
    rfSynced,    \* the versions mirrored under scratchDir by the last sync
    rfTouched,   \* a .tf file under scratchDir has a ModTime after lastScan
    rfChangedTF, \* changedTF of the running iteration (changedTFOnly is its negation)
    rfState,     \* the versions the literal and the evaluated attributes in state come from
    rfIndex,     \* the .tf version the symbol index was built from
    refreshNotify, \* the notifications buffered in refreshNotify (capacity 1)
    rfDone,      \* the stages completed for the signal being handled
    \* ---- line editor of RunREPL ----
    repl,        \* buf, cursor, the TAB cycle, history and ghost of the editor
    readKey,     \* the bytes of the last chunk read from the terminal
    keyCount,    \* chunks read so far
    \* ---- NormalizeCommasInMultiline applied to an input, then to its output ----
    nIn,         \* the input
    nOnce,       \* NormalizeCommasInMultiline(nIn), once computed
    nTwice,      \* NormalizeCommasInMultiline(nOnce), once computed
    nPc,         \* how many times the function has been applied
    \* ---- writeStateAtomicRaw and the snapshot of the persistent evaluator ----
    snState,     \* the bytes of the state file, by the number of the write that made them
    snSnap,      \* the bytes of .tfstate-eval-snapshot.json, -1 when there is no such file
    snLive,      \* an evaluator bound to the state path is in peInstances and not closed
    snPc,        \* where each writer stands in writeStateAtomicRaw
    snBytes,     \* the bytes each writer marshalled
    snTargets,   \* the evaluators each writer collected under peMu
    snWrites,    \* writes begun so far
    \* ---- EvalJSON and its three evaluators ----
    ejPc,        \* where the call of EvalJSON stands
    ejExpr,      \* the expression of the call, trimmed
    ejTried,     \* the evaluators the call has tried, in order, each with its outcome
    ejSpawned,   \* the subprocesses the call has started
    ejPool,      \* the evaluator of the key in peInstances has a running subprocess
    ejConsoleState, \* the -state file of the short-lived console of the call
    ejRes,       \* what the call returns
    ejCalls,     \* calls begun so far
    \* ---- ResetPersistentEvaluator ----
    peInPool,    \* the evaluator is the entry of its key in peInstances
    rsWaiting,   \* the callers that were registered and waiting when the evaluator was reset
    \* ---- the memo of the targeted patch and the var-files ----
    vfStat,      \* each var-file: whether os.Stat finds it, its mtime, size and content
    vmMemo,      \* evalMemo: key to value
    vmAt,        \* for each key of evalMemo, what the var-files were when it was stored
    vmLast,      \* what the last patch of an expression attribute did
    vmPatches,   \* targeted patches run so far
    vmEdits,     \* var-file modifications so far
    \* ---- PatchStateFromConfigLiterals on one resource block ----
    lbBody,      \* the body of the resource block in the configuration
    lbAttrs,     \* the attributes of the resource's instance in the state
    lbPc,        \* 0 before the patch, 1 after
    \* ---- deepEqualJSONish applied to two values ----
    dqA,         \* the first value
    dqB,         \* the second value
    dqAB,        \* deepEqualJSONish(a, b)
    dqBA,        \* deepEqualJSONish(b, a)
    dqPc,        \* 0 before the two calls, 1 after
    \* ---- the completion index and files that do not parse ----
    ixFiles,     \* each .tf file under cwd: the variable it declares, and whether it parses
    ixIndex,     \* the symbols of the index the REPL completes against
    ixPc,        \* "boot" before RunConsoleCommand has built the index, "run" after
    ixEdits,     \* saves of .tf files so far
    ixBuilds,    \* calls of BuildSymbolIndex so far
    \* ---- the main loop of RunREPL while no key is pressed ----
    mlPc,        \* "select" at the select on refreshNotify, "read" inside tty.Read
    \* ---- the pool of persistent evaluators under one key ----
    plMap,       \* peInstances[key]: the evaluator in the pool, 0 when the key is absent
    plEv,        \* each evaluator ever made: made, started, closed, cmd (its current subprocess, 0 for nil)
    plProc,      \* each subprocess ever started: owner (0 before cmd.Start), alive, reader (its readLoop runs)
    plHold,      \* each caller of EvalJSON: the evaluator it got from the pool, 0 when it holds none
    \* ---- evalMemo and the variable defaults and locals of the .tf files ----
    tdTf,        \* the .tf files of workDir: the default of variable a (0: none), the literal of local l
    tdMemo,      \* evalMemo: the value stored under each key
    tdLast,      \* the last targeted patch: its expression, the value it patched, whether it evaluated
    tdEdits,     \* saves of .tf files so far
    tdPatches    \* targeted patches so far

sanVars == <<sanX, sanY, sanZ, sanPc>>

evalVars == <<peStarted, peClosed, procAlive, stdinQ, stdoutQ, waiters, chanBuf,
              chanClosed, rlPc, rlLine, cPc, cId, cExpr, cGot, cRes, nextId>>

patchVars == <<cfg, modIndex, dirty, stFile, evalMemo, jPc, jIdx, jNew, started, obs>>

coreVars == <<sanVars, evalVars, patchVars>>

syncVars == <<src, mirror, manifest, clock, syncCalls, syncSeen, syncRet, syncWrites>>

ccVars == <<ccLine, ccCursor, ccIndex, ccOut, ccPc>>

watchVars == <<wFiles, wPending, wSince, wUntilTick, refreshCh, wBurst>>

refVars == <<rfPc, rfSrc, rfSynced, rfTouched, rfChangedTF, rfState, rfIndex, refreshNotify, rfDone>>

tabVars == <<repl, readKey, keyCount>>

normVars == <<nIn, nOnce, nTwice, nPc>>

snapVars == <<snState, snSnap, snLive, snPc, snBytes, snTargets, snWrites>>

ejVars == <<ejPc, ejExpr, ejTried, ejSpawned, ejPool, ejConsoleState, ejRes, ejCalls>>

resetVars == <<peInPool, rsWaiting>>

memoVars == <<vfStat, vmMemo, vmAt, vmLast, vmPatches, vmEdits>>

litVars == <<lbBody, lbAttrs, lbPc>>

deqVars == <<dqA, dqB, dqAB, dqBA, dqPc>>

idxVars == <<ixFiles, ixIndex, ixPc, ixEdits, ixBuilds>>

loopVars == <<mlPc>>

poolVars == <<plMap, plEv, plProc, plHold>>

tfdVars == <<tdTf, tdMemo, tdLast, tdEdits, tdPatches>>

\* the components other than the sanitizer, the evaluator and the patcher
restVars == <<syncVars, ccVars, watchVars, refVars, tabVars, normVars, snapVars, ejVars, resetVars, memoVars, litVars, deqVars, idxVars, loopVars, poolVars, tfdVars>>

vars == <<coreVars, restVars>>

-----------------------------------------------------------------------------
(* Bounds of the model *)

\* longest input string given to sanitizeValue
MaxStrLen == 4

\* EvaluateJSON calls made in one run (ids handed out)
MaxCalls == 2

\* resource blocks in the configuration
MaxBlocks == 2

\* no patch starts once serial has reached this
MaxSerial == 3

-----------------------------------------------------------------------------
(* Values *)

Q == "\""
SP == " "

\* the characters input strings are built from
Chars == {Q, SP, "1", "a", "[", "]"}

Null == [k |-> "null"]
B(b) == [k |-> "bool", b |-> b]
N(n) == [k |-> "num", n |-> n]
S(s) == [k |-> "str", s |-> s]
L(e) == [k |-> "seq", e |-> e]
M(m) == [k |-> "map", m |-> m]

\* a marker that is no value: an absent map entry, an unset result
None == [k |-> "none"]

-----------------------------------------------------------------------------
(* strings.TrimSpace, strconv.Unquote and json.Unmarshal on character       *)
(* sequences over Chars                                                     *)

RECURSIVE SkipWs(_, _)
\* the first index >= i of s that holds no whitespace (Len(s)+1 when none)
SkipWs(s, i) ==
    IF i <= Len(s) /\ s[i] = SP THEN SkipWs(s, i + 1) ELSE i

RECURSIVE LastNonWs(_, _)
\* the last index <= i of s that holds no whitespace (0 when none)
LastNonWs(s, i) ==
    IF i >= 1 /\ s[i] = SP THEN LastNonWs(s, i - 1) ELSE i

TrimSpace(s) ==
    LET a == SkipWs(s, 1)
        b == LastNonWs(s, Len(s))
    IN  IF a > b THEN <<>> ELSE SubSeq(s, a, b)

\* strconv.Unquote succeeds on a double-quoted literal whose inside holds no
\* quote (Chars has no backslash, back-quote, single quote or newline)
UnquoteOk(s) ==
    /\ Len(s) >= 2
    /\ s[1] = Q
    /\ s[Len(s)] = Q
    /\ \A i \in 2..(Len(s) - 1) : s[i] # Q

Unquote(s) == SubSeq(s, 2, Len(s) - 1)

IsDigit(c) == c \in {"0", "1", "2", "3", "4", "5", "6", "7", "8", "9"}

DigitVal(c) ==
    CASE c = "0" -> 0 [] c = "1" -> 1 [] c = "2" -> 2 [] c = "3" -> 3
      [] c = "4" -> 4 [] c = "5" -> 5 [] c = "6" -> 6 [] c = "7" -> 7
      [] c = "8" -> 8 [] c = "9" -> 9

RECURSIVE DigitsEnd(_, _)
\* the index after the run of digits of s that starts at i
DigitsEnd(s, i) ==
    IF i <= Len(s) /\ IsDigit(s[i]) THEN DigitsEnd(s, i + 1) ELSE i

RECURSIVE DigitsValue(_)
DigitsValue(d) ==
    IF Len(d) = 0 THEN 0
    ELSE 10 * DigitsValue(SubSeq(d, 1, Len(d) - 1)) + DigitVal(d[Len(d)])

RECURSIVE NextQuote(_, _)
\* the first index >= i of s that holds a quote (Len(s)+1 when none)
NextQuote(s, i) ==
    IF i <= Len(s) /\ s[i] # Q THEN NextQuote(s, i + 1) ELSE i

ParseFail == [ok |-> FALSE, v |-> None, j |-> 0]

RECURSIVE ParseValue(_, _)
RECURSIVE ParseElems(_, _, _)

\* one JSON value of s from index i on: [ok, v: the value, j: the index after it]
ParseValue(s, i) ==
    LET j == SkipWs(s, i) IN
    IF j > Len(s) THEN ParseFail
    ELSE IF s[j] = Q THEN
        LET e == NextQuote(s, j + 1) IN
        IF e > Len(s) THEN ParseFail
        ELSE [ok |-> TRUE, v |-> S(SubSeq(s, j + 1, e - 1)), j |-> e + 1]
    ELSE IF IsDigit(s[j]) THEN
        LET e == DigitsEnd(s, j) IN
        \* a JSON number has no leading zero
        IF s[j] = "0" /\ e > j + 1 THEN ParseFail
        ELSE [ok |-> TRUE, v |-> N(DigitsValue(SubSeq(s, j, e - 1))), j |-> e]
    ELSE IF s[j] = "[" THEN
        LET j2 == SkipWs(s, j + 1) IN
        IF j2 <= Len(s) /\ s[j2] = "]"
        THEN [ok |-> TRUE, v |-> L(<<>>), j |-> j2 + 1]
        ELSE ParseElems(s, j + 1, <<>>)
    ELSE ParseFail

\* the elements of an array after its "[" or a ",": acc holds those parsed
ParseElems(s, i, acc) ==
    LET r == ParseValue(s, i) IN
    IF ~r.ok THEN ParseFail
    ELSE LET j == SkipWs(s, r.j) IN
         IF j > Len(s) THEN ParseFail
         ELSE IF s[j] = "]" THEN [ok |-> TRUE, v |-> L(Append(acc, r.v)), j |-> j + 1]
         ELSE IF s[j] = "," THEN ParseElems(s, j + 1, Append(acc, r.v))
         ELSE ParseFail

\* json.Unmarshal(s, &parsed) == nil: one value, then only whitespace
JsonValid(s) ==
    LET r == ParseValue(s, 1) IN r.ok /\ SkipWs(s, r.j) > Len(s)

JsonParse(s) == ParseValue(s, 1).v

\* the first bytes sanitizeValue takes for the start of a JSON text
JsonStart == {"{", "[", Q, "t", "f", "n", "-",
              "0", "1", "2", "3", "4", "5", "6", "7", "8", "9"}

-----------------------------------------------------------------------------
(* sanitizeValue / sanitizeMap (state.go) *)

\* "try to unquote once": the unquoted text when strconv.Unquote succeeds
UnquoteOnce(t) == IF UnquoteOk(t) THEN Unquote(t) ELSE t

RECURSIVE sanitizeValue(_)
RECURSIVE ParseIfJson(_)

\* "if looks like JSON object/array/primitive, try to parse": the sanitized
\* parsed value, or the string s itself
ParseIfJson(s) ==
    IF Len(s) > 0 /\ s[1] \in JsonStart /\ JsonValid(s)
    THEN sanitizeValue(JsonParse(s))
    ELSE S(s)

sanitizeValue(v) ==
    CASE v.k = "str" -> ParseIfJson(UnquoteOnce(TrimSpace(v.s)))
      [] v.k = "seq" -> L([i \in 1..Len(v.e) |-> sanitizeValue(v.e[i])])
      [] v.k = "map" -> M([key \in DOMAIN v.m |-> sanitizeValue(v.m[key])])
      [] OTHER -> v

\* sanitizeMap on a map[string]any given as a function
sanitizeMap(m) == [key \in DOMAIN m |-> sanitizeValue(m[key])]

\* the sanitizer harness before anything is applied
SanStart ==
    /\ sanY = None
    /\ sanZ = None
    /\ sanPc = 0

-----------------------------------------------------------------------------
(* The persistent evaluator: one persistentEvaluator, its subprocess, its   *)
(* reader goroutine and the goroutines calling EvaluateJSON                 *)

\* the goroutines that call EvaluateJSON
Callers == {"c1", "c2"}

\* the ids uuid.NewString() may return: each is returned once
Ids == 1..MaxCalls

\* the expressions callers submit
Exprs == {"var.a", "var.n"}

\* what terraform console computes for an expression
ConsoleValue(expr) == IF expr = "var.a" THEN S(<<"a">>) ELSE N(1)

\* a line of stdout that is no JSON object with an __id: a prompt, a banner
NoiseLine == [json |-> FALSE, id |-> 0, val |-> None]

\* the line terraform console prints for jsonencode({__id="id", __val=(expr)})
ResponseLine(req) == [json |-> TRUE, id |-> req.id, val |-> ConsoleValue(req.expr)]

\* the empty string the reader hands every waiter when stdout ends
EmptyLine == [json |-> FALSE, id |-> 0, val |-> None]

NoResult == [ok |-> FALSE, v |-> None]

EvalStart ==
    /\ peStarted = FALSE
    /\ peClosed = FALSE
    /\ procAlive = FALSE
    /\ stdinQ = <<>>
    /\ stdoutQ = <<>>
    /\ waiters = {}
    /\ chanBuf = [i \in Ids |-> <<>>]
    /\ chanClosed = [i \in Ids |-> FALSE]
    /\ rlPc = "none"
    /\ rlLine = NoiseLine
    /\ cPc = [c \in Callers |-> "idle"]
    /\ cId = [c \in Callers |-> 0]
    /\ cExpr = [c \in Callers |-> ""]
    /\ cGot = [c \in Callers |-> EmptyLine]
    /\ cRes = [c \in Callers |-> NoResult]
    /\ nextId = 0

-----------------------------------------------------------------------------
(* deepEqualJSONish and its fmt.Sprintf("%v") fallback (state.go)           *)

DigitChar(d) ==
    CASE d = 0 -> "0" [] d = 1 -> "1" [] d = 2 -> "2" [] d = 3 -> "3"
      [] d = 4 -> "4" [] d = 5 -> "5" [] d = 6 -> "6" [] d = 7 -> "7"
      [] d = 8 -> "8" [] d = 9 -> "9"

RECURSIVE NumChars(_)
\* %v of a float64 that holds a small non-negative integer: its digits
NumChars(n) ==
    IF n < 10 THEN <<DigitChar(n)>>
    ELSE NumChars(n \div 10) \o <<DigitChar(n % 10)>>

RECURSIVE GoFmtV(_)
RECURSIVE GoFmtElems(_, _)
RECURSIVE GoFmtEntries(_, _)

\* fmt.Sprintf("%v", v) as a character sequence
GoFmtV(v) ==
    CASE v.k = "null" -> <<"<", "n", "i", "l", ">">>
      [] v.k = "bool" -> IF v.b THEN <<"t", "r", "u", "e">> ELSE <<"f", "a", "l", "s", "e">>
      [] v.k = "num"  -> NumChars(v.n)
      [] v.k = "str"  -> v.s
      [] v.k = "seq"  -> <<"[">> \o GoFmtElems(v.e, 1) \o <<"]">>
      [] v.k = "map"  -> <<"m", "a", "p", "[">> \o GoFmtEntries(v.m, DOMAIN v.m) \o <<"]">>

\* the elements of a slice from index i on, separated by one space
GoFmtElems(e, i) ==
    IF i > Len(e) THEN <<>>
    ELSE GoFmtV(e[i]) \o (IF i < Len(e) THEN <<SP>> \o GoFmtElems(e, i + 1) ELSE <<>>)

\* the entries key:value of a map, separated by one space (fmt sorts the keys;
\* keys are one character long)
GoFmtEntries(m, keys) ==
    IF keys = {} THEN <<>>
    ELSE LET key == CHOOSE x \in keys : TRUE
             rest == keys \ {key}
         IN  <<key, ":">> \o GoFmtV(m[key])
                \o (IF rest = {} THEN <<>> ELSE <<SP>> \o GoFmtEntries(m, rest))

\* bb[k] of a Go map: nil when the key is absent
MapGet(m, key) == IF key \in DOMAIN m THEN m[key] ELSE Null

RECURSIVE deepEqualJSONish(_, _)
deepEqualJSONish(a, b) ==
    IF a.k = "null" \/ b.k = "null" THEN a = b
    ELSE IF a.k = "num" /\ b.k = "num" THEN a.n = b.n
    ELSE IF a.k = "str" /\ b.k = "str" THEN a.s = b.s
    ELSE IF a.k = "bool" /\ b.k = "bool" THEN a.b = b.b
    ELSE IF a.k = "seq" THEN
        /\ b.k = "seq"
        /\ Len(a.e) = Len(b.e)
        /\ \A i \in 1..Len(a.e) : deepEqualJSONish(a.e[i], b.e[i])
    ELSE IF a.k = "map" THEN
        /\ b.k = "map"
        /\ Cardinality(DOMAIN a.m) = Cardinality(DOMAIN b.m)
        /\ \A key \in DOMAIN a.m : deepEqualJSONish(a.m[key], MapGet(b.m, key))
    ELSE GoFmtV(a) = GoFmtV(b)

-----------------------------------------------------------------------------
(* Resource keys and provider addresses (state.go)                          *)

RECURSIVE modulePathToString(_)
\* "module.a.module.b" for the module call names <<"a", "b">>, "" for the root
modulePathToString(path) ==
    IF Len(path) = 0 THEN ""
    ELSE LET front == modulePathToString(SubSeq(path, 1, Len(path) - 1))
         IN  (IF front = "" THEN "" ELSE front \o ".") \o "module." \o path[Len(path)]

\* module|type|name, or type|name for the root module: the parts joined by "|"
resourceKey(module, rType, name) ==
    IF module = "" THEN <<rType, name>> ELSE <<module, rType, name>>

RECURSIVE IndexOfChar(_, _, _)
\* strings.Index(s, c) searched from position i on, counted from 0; -1 when absent
IndexOfChar(s, c, i) ==
    IF i > Len(s) THEN -1
    ELSE IF s[i] = c THEN i - 1
    ELSE IndexOfChar(s, c, i + 1)

\* provider["registry.terraform.io/hashicorp/<prefix of the type before its first _>"]
providerAddressForType(resourceType) ==
    LET i == IndexOfChar(resourceType, "_", 1)
        prov == IF i > 0 THEN SubSeq(resourceType, 1, i) ELSE resourceType
    IN  [host |-> "registry.terraform.io", namespace |-> "hashicorp", prov |-> prov]

-----------------------------------------------------------------------------
(* The configuration the patcher scans, and the state file                  *)

\* the .tf files of the project: main.tf of the root module and main.tf of
\* the local module it calls as module "child"
Files == {"root", "child"}

\* the order the root module and its child are scanned in
FileOrder == <<"root", "child">>

\* ResourceConfig.ModulePath of the resources a file declares
ModulePath(f) == IF f = "root" THEN <<>> ELSE <<"child">>

NullResource == <<"n", "u", "l", "l", "_", "r", "e", "s", "o", "u", "r", "c", "e">>

\* the resource names blocks are declared with: the root module declares
\* resource n (possibly in two blocks), the child module resource m
NamesIn(f) == IF f = "root" THEN {"n"} ELSE {"m"}

\* the attribute names of a resource block (none is a meta-argument)
AttrKeys == {"a"}

\* an attribute given by a constant expression, already converted by
\* convertCtyToGo, and one given by an expression that needs evaluation
Lit(v) == [kind |-> "lit", v |-> v, e |-> ""]
Expr(e) == [kind |-> "expr", v |-> None, e |-> e]

\* the literals a block may give its attribute: the string [a], the tuple
\* ["a"], and the string that holds a quote, a space, 1 and a quote
LitVals == {S(<<"[", "a", "]">>), L(<<S(<<"a">>)>>), S(<<Q, SP, "1", Q>>)}

AttrSpecs == {Lit(v) : v \in LitVals} \cup {Expr("var.a")}

\* a resource block: resource "<type>" "<name>" { a = ... }
Block(rType, rName, spec) == [type |-> rType, name |-> rName, a |-> spec]

\* .terraform/modules/modules.json of the scratch directory: absent, or as
\* terraform init writes it (the child module under the key "child")
ModIndexes == {"absent", "terraform"}

\* resolveModuleDirs and the fallback walk: the files whose module is scanned.
\* resolveModuleDirs keeps only keys that start with "root", so with
\* terraform's own index only the root directory is left
ScannedFiles(index) ==
    IF index = "terraform" THEN <<"root">> ELSE FileOrder

\* extractLiteralsFromBody: the constant attributes of a block
LiteralAttrs(blk) ==
    [key \in AttrKeys |-> IF blk[key].kind = "lit" THEN blk[key].v ELSE None]

\* the attributes of a block with its expressions evaluated when ok
EvaluatedAttrs(blk, ok) ==
    [key \in AttrKeys |->
        IF blk[key].kind = "lit" THEN blk[key].v
        ELSE IF ok THEN ConsoleValue(blk[key].e)
        ELSE None]

ResourceConfig(f, blk, attrs) ==
    [ModulePath |-> ModulePath(f), Type |-> blk.type, Name |-> blk.name, Attrs |-> attrs]

RECURSIVE ConfigsOfFiles(_, _, _, _)
\* the ResourceConfigs of the listed files, in order; okSet holds the
\* <<file, index>> of the blocks whose expressions evaluate
ConfigsOfFiles(config, files, i, okSet) ==
    IF i > Len(files) THEN <<>>
    ELSE LET f == files[i] IN
         [j \in 1..Len(config[f]) |->
             ResourceConfig(f, config[f][j],
                            EvaluatedAttrs(config[f][j], <<f, j>> \in okSet))]
           \o ConfigsOfFiles(config, files, i + 1, okSet)

\* BuildResourceConfigs: literal attributes only
BuildResourceConfigs(config, index) ==
    ConfigsOfFiles(config, ScannedFiles(index), 1, {})

\* every block of the configuration, as <<file, index>>
AllBlocks(config) == {p \in Files \X (1..MaxBlocks) : p[2] <= Len(config[p[1]])}

\* BuildResourceConfigsEvaluated: expressions evaluated per block
BuildResourceConfigsEvaluated(config, index, okSet) ==
    ConfigsOfFiles(config, ScannedFiles(index), 1, okSet)

\* BuildResourceConfigsEvaluatedGlobal: one batch for all expressions
BuildResourceConfigsEvaluatedGlobal(config, index, ok) ==
    ConfigsOfFiles(config, ScannedFiles(index), 1, IF ok THEN AllBlocks(config) ELSE {})

\* the configurations PatchStateFromConfigEvaluatedFast merges: those of the
\* global batch, and those of BuildResourceConfigsEvaluated only when the
\* global scan failed or found no resource (a batch that does not evaluate
\* is neither)
FastConfigs(config, index, ok) ==
    IF Len(BuildResourceConfigsEvaluatedGlobal(config, index, ok)) = 0
    THEN BuildResourceConfigsEvaluated(config, index, AllBlocks(config))
    ELSE BuildResourceConfigsEvaluatedGlobal(config, index, ok)

\* a resource object of the state; provider is None when the field is absent,
\* module is "" when the field is absent
StateResource(rType, rName, module, provider, instances) ==
    [mode |-> "managed", type |-> rType, name |-> rName, module |-> module,
     provider |-> provider, instances |-> instances]

Instance(attrs) == [attributes |-> attrs, schema_version |-> 0]

NoFile == [exists |-> FALSE, version |-> None, serial |-> None, lineage |-> "", resources |-> <<>>]

\* EnsureStateInitialized: the minimal state written when there is no file
FreshState == [exists |-> TRUE, version |-> N(4), serial |-> N(1), lineage |-> "new",
               resources |-> <<>>]

\* an initialization that writes the minimal state whether or not a file exists
EnsureStateAlways(file) == FreshState

EnsureStateInitialized(file) == IF file.exists THEN file ELSE FreshState

\* the switch on st["version"]
BumpVersion(v) == IF v.k = "num" THEN (IF v.n = 0 THEN N(4) ELSE v) ELSE N(4)

\* the switch on st["serial"]
BumpSerial(s) == IF s.k = "num" THEN (IF s.n <= 0 THEN N(1) ELSE N(s.n + 1)) ELSE N(1)

-----------------------------------------------------------------------------
(* The merge loop shared by PatchStateFromConfig, PatchStateFromConfigLiterals *)
(* and PatchStateFromConfigEvaluatedFast, and patchAttrWrite                *)

\* index[key]: the last managed resource of the list with this key, 0 when none
IndexOfKey(resources, key) ==
    LET hits == {i \in 1..Len(resources) :
                    /\ resources[i].mode = "managed"
                    /\ resourceKey(resources[i].module, resources[i].type,
                                   resources[i].name) = key}
    IN  IF hits = {} THEN 0 ELSE CHOOSE i \in hits : \A j \in hits : j <= i

\* the attribute loop on one instance: a configured attribute is stored when
\* it is absent or not deepEqualJSONish to the sanitized new value
MergeAttrs(attrs, cfgAttrs) ==
    [key \in AttrKeys |->
        IF cfgAttrs[key] = None THEN attrs[key]
        ELSE LET nv == sanitizeValue(cfgAttrs[key]) IN
             IF attrs[key] = None \/ ~deepEqualJSONish(attrs[key], nv)
             THEN nv ELSE attrs[key]]

\* the attribute loop sets changed
AttrsChange(attrs, cfgAttrs) ==
    \E key \in AttrKeys :
        /\ cfgAttrs[key] # None
        /\ \/ attrs[key] = None
           \/ ~deepEqualJSONish(attrs[key], sanitizeValue(cfgAttrs[key]))

\* the provider field once "ensure provider is set" has run
FillProvider(res, rType) ==
    IF res.provider = None THEN [res EXCEPT !.provider = providerAddressForType(rType)]
    ELSE res

\* the new minimal managed resource entry
NewResource(rc) ==
    StateResource(rc.Type, rc.Name, modulePathToString(rc.ModulePath),
                  providerAddressForType(rc.Type), <<Instance(sanitizeMap(rc.Attrs))>>)

\* the branch "if ref, ok := index[key]; ok" on the object obj = resources[idx],
\* its provider already ensured
MergeExisting(acc, rc, idx, obj) ==
    IF Len(obj.instances) = 0
    THEN [resources |-> [acc.resources EXCEPT ![idx] =
             [obj EXCEPT !.instances = <<Instance(sanitizeMap(rc.Attrs))>>]],
          changed |-> TRUE]
    ELSE [resources |-> [acc.resources EXCEPT ![idx] =
             [obj EXCEPT !.instances =
                 [j \in 1..Len(obj.instances) |->
                     [obj.instances[j] EXCEPT !.attributes =
                         MergeAttrs(obj.instances[j].attributes, rc.Attrs)]]]],
          changed |-> acc.changed \/
             \E j \in 1..Len(obj.instances) :
                AttrsChange(obj.instances[j].attributes, rc.Attrs)]

\* one iteration with idx = index[key] (0 when the key is not in the index)
MergeAt(acc, rc, idx) ==
    IF idx = 0
    THEN [resources |-> Append(acc.resources, NewResource(rc)), changed |-> TRUE]
    ELSE MergeExisting(acc, rc, idx, FillProvider(acc.resources[idx], rc.Type))

\* one iteration of "for _, rc := range cfgs" on [resources, changed]
MergeOne(acc, rc) ==
    MergeAt(acc, rc,
            IndexOfKey(acc.resources,
                       resourceKey(modulePathToString(rc.ModulePath), rc.Type, rc.Name)))

RECURSIVE MergeAll(_, _, _)
\* the loop over cfgs[i..]
MergeAll(acc, cfgs, i) ==
    IF i > Len(cfgs) THEN acc ELSE MergeAll(MergeOne(acc, cfgs[i]), cfgs, i + 1)

\* the end of a patch function: with m = [resources, changed] after the loop
\* on the state st it read, nothing when changed is false, else the bump of
\* version and serial and the write
PatchEnd(st, m) ==
    [file |-> IF m.changed
              THEN [st EXCEPT !.version = BumpVersion(st.version),
                              !.serial = BumpSerial(st.serial),
                              !.resources = m.resources]
              ELSE st,
     wrote |-> m.changed,
     read |-> st.resources,
     merged |-> m.resources]

\* a patch function from the state st it read
PatchState(st, cfgs) ==
    PatchEnd(st, MergeAll([resources |-> st.resources, changed |-> FALSE], cfgs, 1))

\* a whole patch function on the file it finds: [file: the file it leaves,
\* wrote: it wrote after the merge, read: the resources it read, merged: the
\* resources it held in memory]
PatchWith(file, cfgs) ==
    PatchState(EnsureStateInitialized(file), cfgs)

\* "serialize once and skip write if identical to original bytes", on the
\* result r of the patch of state st
SkipIfIdentical(st, r) ==
    IF r.wrote /\ r.file = st THEN [r EXCEPT !.file = st, !.wrote = FALSE] ELSE r

\* PatchStateFromConfig compares the marshalled state with the bytes it read
\* before it writes
PatchWithCompare(file, cfgs) ==
    SkipIfIdentical(EnsureStateInitialized(file), PatchWith(file, cfgs))

\* patchAttrWrite: the first managed resource with this type and name
FirstOfTypeName(resources, rType, rName) ==
    LET hits == {i \in 1..Len(resources) :
                    /\ resources[i].mode = "managed"
                    /\ resources[i].type = rType
                    /\ resources[i].name = rName}
    IN  IF hits = {} THEN 0 ELSE CHOOSE i \in hits : \A j \in hits : i <= j

\* map[string]any{attr: sanitizeValue(val)}
OneAttr(attr, val) ==
    [key \in AttrKeys |-> IF key = attr THEN sanitizeValue(val) ELSE None]

\* the end of writeStateBump: the bumped state is written unless its bytes
\* are those read
WriteUnlessIdentical(st, bumped) ==
    [write |-> bumped # st, file |-> bumped, merged |-> bumped.resources]

\* writeStateBump on the state a worker holds: bump, marshal, compare with the
\* bytes read, write
writeStateBump(st, resources) ==
    WriteUnlessIdentical(st, [st EXCEPT !.version = BumpVersion(st.version),
                                        !.serial = BumpSerial(st.serial),
                                        !.resources = resources])

\* the end of the matched branch: resources is the list with the attribute
\* merged in, written when the loop set changed
WriteIfChanged(st, resources, changed) ==
    IF changed THEN writeStateBump(st, resources)
    ELSE [write |-> FALSE, file |-> st, merged |-> resources]

\* the matched branch on the object m = resources[i], its provider already
\* ensured; cfgAttrs is the one attribute as a map
PatchAttrExisting(st, i, m, attr, val, cfgAttrs) ==
    IF Len(m.instances) = 0
    THEN writeStateBump(st, [st.resources EXCEPT ![i] =
             [m EXCEPT !.instances = <<Instance(OneAttr(attr, val))>>]])
    ELSE WriteIfChanged(st,
             [st.resources EXCEPT ![i] =
                 [m EXCEPT !.instances =
                     [j \in 1..Len(m.instances) |->
                         [m.instances[j] EXCEPT !.attributes =
                             MergeAttrs(m.instances[j].attributes, cfgAttrs)]]]],
             \E j \in 1..Len(m.instances) :
                AttrsChange(m.instances[j].attributes, cfgAttrs))

\* patchAttrWrite with i the first matching resource (0 when none matches)
PatchAttrAt(st, rType, attr, val, i, rName) ==
    IF i = 0
    THEN writeStateBump(st, Append(st.resources,
             [mode |-> "managed", type |-> rType, name |-> rName, module |-> "",
              provider |-> providerAddressForType(rType),
              instances |-> <<Instance(OneAttr(attr, val))>>]))
    ELSE PatchAttrExisting(st, i, FillProvider(st.resources[i], rType), attr, val,
                           [key \in AttrKeys |-> IF key = attr THEN val ELSE None])

\* patchAttrWrite on the state st it has read: [write, file: what it writes,
\* merged: the resources it held in memory]
patchAttrWrite(st, rType, rName, attr, val) ==
    PatchAttrAt(st, rType, attr, val, FirstOfTypeName(st.resources, rType, rName), rName)

-----------------------------------------------------------------------------
(* The patcher at work: the user edits the configuration, the console       *)
(* command hydrates the state at startup, the refresher of the REPL patches *)
(* literals and then the changed files with the workers of                  *)
(* PatchTargetedExactByFiles                                                *)

\* the state pulled from the backend before the console starts: resource n
\* without a provider field or with a provider of another namespace, and
\* resources n and m of the root module both without one
CustomProvider == [host |-> "registry.terraform.io", namespace |-> "custom",
                   prov |-> <<"n", "u", "l", "l">>]

RemoteResource(rName, provider) ==
    StateResource(NullResource, rName, "", provider,
                  <<Instance([key \in AttrKeys |-> S(<<"a">>)])>>)

RemoteState(version, serial, resources) ==
    [exists |-> TRUE, version |-> version, serial |-> serial, lineage |-> "remote",
     resources |-> resources]

\* the state files found at startup: two without version and serial, one as
\* terraform wrote it
RemoteStates ==
    {RemoteState(None, None, <<RemoteResource("n", None)>>),
     RemoteState(N(4), N(1), <<RemoteResource("n", CustomProvider)>>),
     RemoteState(None, None, <<RemoteResource("n", None), RemoteResource("m", None)>>)}

\* what is known of the last step: op is "none", "edit", "edit1" (one literal
\* of block idx of file was changed right after a literal patch), "lit",
\* "cfg", "fast" or "attr"; wrote: the patch wrote the state after its merge;
\* differs: the resources it held after the merge differ from those it read
Obs(op, wrote, differs, file, idx) ==
    [op |-> op, wrote |-> wrote, differs |-> differs, file |-> file, idx |-> idx]

NoObs == Obs("none", FALSE, FALSE, "", 0)

PatchOps == {"lit", "cfg", "fast", "attr"}

\* the patcher before anything has happened, with no state file
PatchStart ==
    /\ cfg = [f \in Files |-> <<>>]
    /\ modIndex = "absent"
    /\ dirty = {}
    /\ stFile = NoFile
    /\ evalMemo = {}
    /\ jPc = [f \in Files |-> "idle"]
    /\ jIdx = [f \in Files |-> 0]
    /\ jNew = [f \in Files |-> NoFile]
    /\ started = FALSE
    /\ obs = NoObs

\* the sanitizer, the evaluator and the patcher before anything has happened
CoreStart ==
    /\ SanStart
    /\ sanX = Null
    /\ EvalStart
    /\ PatchStart

-----------------------------------------------------------------------------
(* The scratch synchronizer: Sync(ROOT, SCRATCH) -> {changed, changed_tf},  *)
(* its manifest and the mirror it keeps                                     *)

MaxClock == 3
MaxSyncs == 3

SyncPaths == {"main.tf", "x.tfvars"}

\* the file's extension is .tf
IsTF(p) == p = "main.tf"

Sizes == {1, 2}

\* no manifest entry, no mirrored file
NoEntry == [mt |-> 0, size |-> 0]

NoSource == [present |-> FALSE, mt |-> 0, size |-> 0, backend |-> FALSE]

SourceFile(mt, size, backend) ==
    [present |-> TRUE, mt |-> mt, size |-> size, backend |-> backend]

EmptyTree == [p \in SyncPaths |-> NoEntry]

NoManifest == [exists |-> FALSE, entries |-> EmptyTree]

SyncResult(changed, changedTF) == [changed |-> changed, changedTF |-> changedTF]

NotSeen == [seen |-> FALSE, src |-> [p \in SyncPaths |-> NoSource]]

SyncStart ==
    /\ src = [p \in SyncPaths |-> NoSource]
    /\ mirror = EmptyTree
    /\ manifest = NoManifest
    /\ clock = 0
    /\ syncCalls = 0
    /\ syncSeen = NotSeen
    /\ syncRet = SyncResult(FALSE, FALSE)
    /\ syncWrites = 0

\* step 2: the previous manifest, empty when the file is absent
PreviousManifest(m) == IF m.exists THEN m.entries ELSE EmptyTree

\* step 3: a file of ROOT is tracked unless it is a .tf file that contains
\* the literal backend "
Tracked(s, p) == s[p].present /\ ~(IsTF(p) /\ s[p].backend)

\* step 3: the new manifest records (mod_unix_nano, size) of every tracked file
NewManifest(s) ==
    [p \in SyncPaths |->
        IF Tracked(s, p) THEN [mt |-> s[p].mt, size |-> s[p].size] ELSE NoEntry]

\* step 4: the tracked files whose entry is new or differs from the previous one
Copied(s, m) ==
    {p \in SyncPaths : Tracked(s, p) /\ NewManifest(s)[p] # PreviousManifest(m)[p]}

\* step 5: the previous entries that are no longer seen
Removed(s, m) ==
    {p \in SyncPaths : PreviousManifest(m)[p] # NoEntry /\ ~Tracked(s, p)}

SyncChanged(s, m) == Copied(s, m) \cup Removed(s, m) # {}

SyncChangedTF(s, m) == \E p \in Copied(s, m) \cup Removed(s, m) : IsTF(p)

\* steps 4 and 5 on the mirror
SyncMirror(s, m, mir) ==
    [p \in SyncPaths |->
        IF p \in Copied(s, m) THEN NewManifest(s)[p]
        ELSE IF p \in Removed(s, m) THEN NoEntry
        ELSE mir[p]]

\* a Sync that rewrites the manifest on every call
ManifestAlways(s, m) == TRUE

\* step 6 together with "performs no writes": the manifest is written when
\* a file was copied or removed, or when there is no manifest yet
ManifestWritten(s, m) == SyncChanged(s, m) \/ ~m.exists

SyncManifest(s, m) ==
    IF ManifestWritten(s, m) THEN [exists |-> TRUE, entries |-> NewManifest(s)] ELSE m

\* the files written or removed under SCRATCH by one call
SyncWriteCount(s, m) ==
    Cardinality(Copied(s, m)) + Cardinality(Removed(s, m))
        + (IF ManifestWritten(s, m) THEN 1 ELSE 0)

\* a file of ROOT is created or rewritten
EditFile(p) ==
    /\ clock < MaxClock
    /\ clock' = clock + 1
    /\ \E size \in Sizes, backend \in (IF IsTF(p) THEN BOOLEAN ELSE {FALSE}) :
          src' = [src EXCEPT ![p] = SourceFile(clock + 1, size, backend)]
    /\ UNCHANGED <<mirror, manifest, syncCalls, syncSeen, syncRet, syncWrites>>
    /\ UNCHANGED <<coreVars, ccVars, watchVars, refVars, tabVars, normVars, snapVars, ejVars, resetVars, memoVars, litVars, deqVars, idxVars, loopVars, poolVars, tfdVars>>

\* a file of ROOT is deleted
DeleteFile(p) ==
    /\ src[p].present
    /\ src' = [src EXCEPT ![p] = NoSource]
    /\ UNCHANGED <<mirror, manifest, clock, syncCalls, syncSeen, syncRet, syncWrites>>
    /\ UNCHANGED <<coreVars, ccVars, watchVars, refVars, tabVars, normVars, snapVars, ejVars, resetVars, memoVars, litVars, deqVars, idxVars, loopVars, poolVars, tfdVars>>

\* one call of Sync(ROOT, SCRATCH)
SyncCall ==
    /\ syncCalls < MaxSyncs
    /\ syncCalls' = syncCalls + 1
    /\ mirror' = SyncMirror(src, manifest, mirror)
    /\ manifest' = SyncManifest(src, manifest)
    /\ syncRet' = SyncResult(SyncChanged(src, manifest), SyncChangedTF(src, manifest))
    /\ syncWrites' = SyncWriteCount(src, manifest)
    /\ syncSeen' = [seen |-> TRUE, src |-> src]
    /\ UNCHANGED <<src, clock>>
    /\ UNCHANGED <<coreVars, ccVars, watchVars, refVars, tabVars, normVars, snapVars, ejVars, resetVars, memoVars, litVars, deqVars, idxVars, loopVars, poolVars, tfdVars>>

SyncNext ==
    \/ \E p \in SyncPaths : EditFile(p)
    \/ \E p \in SyncPaths : DeleteFile(p)
    \/ SyncCall


-----------------------------------------------------------------------------
(* Completion: CompletionCandidates of SymbolIndex on character sequences  *)

MaxLineLen == 3

\* the printable ASCII characters, in byte order from 32 to 126 (the
\* backslash and the back-quote, which no line here holds, by their names)
Ascii ==
    <<
      " ", "!", "\"", "#", "$", "%", "&", "'", "(", ")", "*", "+",
      ",", "-", ".", "/", "0", "1", "2", "3", "4", "5", "6", "7",
      "8", "9", ":", ";", "<", "=", ">", "?", "@", "A", "B", "C",
      "D", "E", "F", "G", "H", "I", "J", "K", "L", "M", "N", "O",
      "P", "Q", "R", "S", "T", "U", "V", "W", "X", "Y", "Z", "[",
      "backslash", "]", "^", "_", "backquote", "a", "b", "c", "d", "e", "f", "g",
      "h", "i", "j", "k", "l", "m", "n", "o", "p", "q", "r", "s",
      "t", "u", "v", "w", "x", "y", "z", "{", "|", "}", "~"
    >>

\* the byte of a character
Code(c) == 31 + (CHOOSE i \in 1..Len(Ascii) : Ascii[i] = c)

\* a token class without the colon
IsTokCharNoColon(r) ==
    \/ r \in {".", "_", "-", "/"}
    \/ (Code(r) >= Code("A") /\ Code(r) <= Code("Z"))
    \/ (Code(r) >= Code("a") /\ Code(r) <= Code("z"))
    \/ (Code(r) >= Code("0") /\ Code(r) <= Code("9"))

\* isTokChar
IsTokChar(r) ==
    IF r = "." \/ r = "_" \/ r = "-" THEN TRUE
    ELSE \/ r = ":"
         \/ r = "/"
         \/ (Code(r) >= Code("A") /\ Code(r) <= Code("Z"))
         \/ (Code(r) >= Code("a") /\ Code(r) <= Code("z"))
         \/ (Code(r) >= Code("0") /\ Code(r) <= Code("9"))

\* strings.ToLower on ASCII
LowerChar(c) ==
    IF Code(c) >= Code("A") /\ Code(c) <= Code("Z") THEN Ascii[Code(c) + 32 - 31] ELSE c

ToLower(s) == [i \in 1..Len(s) |-> LowerChar(s[i])]

\* strings.HasPrefix
HasPrefix(s, prefix) ==
    Len(prefix) <= Len(s) /\ SubSeq(s, 1, Len(prefix)) = prefix

\* s[n:]
From(s, n) == SubSeq(s, n + 1, Len(s))

RECURSIVE SplitOn(_, _)
\* strings.Split(s, c) for a one-character separator
SplitOn(s, c) ==
    IF IndexOfChar(s, c, 1) = -1 THEN <<s>>
    ELSE <<SubSeq(s, 1, IndexOfChar(s, c, 1))>> \o SplitOn(From(s, IndexOfChar(s, c, 1) + 1), c)

RECURSIVE StrLess(_, _)
\* a < b on Go strings: byte-wise lexicographic
StrLess(a, b) ==
    IF b = <<>> THEN FALSE
    ELSE IF a = <<>> THEN TRUE
    ELSE IF Head(a) # Head(b) THEN Code(Head(a)) < Code(Head(b))
    ELSE StrLess(Tail(a), Tail(b))

RECURSIVE InsertSorted(_, _)
InsertSorted(x, sorted) ==
    IF sorted = <<>> THEN <<x>>
    ELSE IF StrLess(x, Head(sorted)) THEN <<x>> \o sorted
    ELSE <<Head(sorted)>> \o InsertSorted(x, Tail(sorted))

RECURSIVE SortStrings(_)
\* sort.Strings
SortStrings(list) ==
    IF list = <<>> THEN <<>> ELSE InsertSorted(Head(list), SortStrings(Tail(list)))

RECURSIVE KeysOf(_)
\* the keys of a map in one of the orders a range loop may take
KeysOf(keys) ==
    IF keys = {} THEN <<>>
    ELSE <<CHOOSE k \in keys : TRUE>> \o KeysOf(keys \ {CHOOSE k \in keys : TRUE})

RECURSIVE Prefixed(_, _, _)
\* for _, v := range names { if strings.HasPrefix(v, prefix) { append(head+v) } }
Prefixed(names, prefix, head) ==
    IF names = <<>> THEN <<>>
    ELSE (IF HasPrefix(Head(names), prefix) THEN <<head \o Head(names)>> ELSE <<>>)
            \o Prefixed(Tail(names), prefix, head)

\* names, ok := m[key]; the loop over names runs only when ok
NamesOf(m, key) == IF key \in DOMAIN m THEN m[key] ELSE <<>>

Dot == <<".">>
VarDot == <<"v", "a", "r", ".">>
LocalDot == <<"l", "o", "c", "a", "l", ".">>
ModuleDot == <<"m", "o", "d", "u", "l", "e", ".">>
OutputDot == <<"o", "u", "t", "p", "u", "t", ".">>
DataDot == <<"d", "a", "t", "a", ".">>

\* []string{"var.", "local.", "module.", "data.", "output."}
Starters == <<VarDot, LocalDot, ModuleDot, DataDot, OutputDot>>

\* without its trailing dot
BareKeyword(kw) == SubSeq(kw, 1, Len(kw) - 1)

SymbolIndex(variables, locals, modules, resource, dataSource, outputs, resourceAttrs) ==
    [Variables |-> variables, Locals |-> locals, Modules |-> modules,
     Resource |-> resource, DataSource |-> dataSource, Outputs |-> outputs,
     ResourceAttrs |-> resourceAttrs]

\* an empty map[string][]string
NoTypes == [ty \in {} |-> <<>>]

\* the cursor, moved to the end of the line when it is out of range
CursorIn(line, cursorIndex) ==
    IF cursorIndex < 0 \/ cursorIndex > Len(line) THEN Len(line) ELSE cursorIndex

RECURSIVE WalkBack(_, _)
\* for start > 0 { if !isTokChar(line[start-1]) { break }; start-- }
WalkBack(line, start) ==
    IF start > 0 /\ IsTokChar(line[start]) THEN WalkBack(line, start - 1) ELSE start

RECURSIVE WalkForward(_, _)
\* for end < len(line) { if !isTokChar(line[end]) { break }; end++ }
WalkForward(line, end) ==
    IF end < Len(line) /\ IsTokChar(line[end + 1]) THEN WalkForward(line, end + 1) ELSE end

\* the switch on lower: a bare keyword behaves like the keyword with its dot
FriendlyToken(token) ==
    IF \E i \in 1..Len(Starters) : ToLower(token) = BareKeyword(Starters[i])
    THEN ToLower(token) \o Dot
    ELSE token

\* case strings.HasPrefix(lower, "data."), with rest = token[len("data."):]
DataCandidates(s, rest) ==
    IF IndexOfChar(rest, ".", 1) = -1
    THEN Prefixed(KeysOf(DOMAIN s.DataSource), rest, DataDot)
    ELSE Prefixed(NamesOf(s.DataSource, SubSeq(rest, 1, IndexOfChar(rest, ".", 1))),
                  From(rest, IndexOfChar(rest, ".", 1) + 1),
                  DataDot \o SubSeq(rest, 1, IndexOfChar(rest, ".", 1)) \o Dot)

\* the category starters the token is a case-insensitive prefix of
StarterCandidates(s, token) ==
    SelectSeq(Starters, LAMBDA kw : HasPrefix(kw, ToLower(token)))

\* default, with parts = strings.Split(token, ".")
DottedCandidates(s, parts) ==
    IF Len(parts) = 2
    THEN Prefixed(NamesOf(s.Resource, parts[1]), parts[2], parts[1] \o Dot)
    ELSE IF Len(parts) >= 3
    THEN Prefixed(NamesOf(s.ResourceAttrs, parts[1]), parts[3],
                  parts[1] \o Dot \o parts[2] \o Dot)
    ELSE <<>>

\* default: resource completion <type>[.name[.attr]]
ResourceCandidates(s, token) ==
    IF IndexOfChar(token, ".", 1) = -1
    THEN Prefixed(KeysOf(DOMAIN s.Resource), token, <<>>) \o StarterCandidates(s, token)
    ELSE DottedCandidates(s, SplitOn(token, "."))

\* the switch on the patterns var., local., module., output., data., default
CandidatesFor(s, token) ==
    IF HasPrefix(ToLower(token), VarDot)
    THEN Prefixed(s.Variables, From(token, Len(VarDot)), VarDot)
    ELSE IF HasPrefix(ToLower(token), LocalDot)
    THEN Prefixed(s.Locals, From(token, Len(LocalDot)), LocalDot)
    ELSE IF HasPrefix(ToLower(token), ModuleDot)
    THEN Prefixed(s.Modules, From(token, Len(ModuleDot)), ModuleDot)
    ELSE IF HasPrefix(ToLower(token), OutputDot)
    THEN Prefixed(s.Outputs, From(token, Len(OutputDot)), OutputDot)
    ELSE IF HasPrefix(ToLower(token), DataDot)
    THEN DataCandidates(s, From(token, Len(DataDot)))
    ELSE ResourceCandidates(s, token)

CandidatesAt(s, line, start, end) ==
    [candidates |-> SortStrings(CandidatesFor(s, FriendlyToken(TrimSpace(SubSeq(line, start + 1, end))))),
     start |-> start,
     end |-> end]

CompletionCandidates(s, line, cursorIndex) ==
    CandidatesAt(s, line,
                 WalkBack(line, CursorIn(line, cursorIndex)),
                 WalkForward(line, CursorIn(line, cursorIndex)))

\* the characters lines are built from: letters of both cases, a digit, the
\* dot and the colon, and the bytes next to the ends of A-Z
LineChars == {"v", "a", "V", "9", ".", ":", " ", "@", "["}

RECURSIVE LinesUpTo(_)
LinesUpTo(n) ==
    IF n = 0 THEN {<<>>}
    ELSE LinesUpTo(n - 1)
            \cup {Append(l, c) : l \in {t \in LinesUpTo(n - 1) : Len(t) = n - 1}, c \in LineChars}

\* longer lines: bare keywords, keywords with their dot, dotted references
KeywordLines ==
    {BareKeyword(VarDot), <<"V", "A", "R">>, VarDot, DataDot, <<"l">>, <<"d">>, <<"m">>, <<"o">>, <<"L", "o">>,
     <<"v", "a", "r", ".", "v">>, <<"d", "a", "t", "a", ".", "a">>, <<"d", "a", "t", "a", ".", "a", ".">>, <<"v", "a", ".">>, <<"v", "a", ".", "a", ".">>, <<"(", "v", "a", "r">>,
     <<"v", "a", ".", "a", ".", "a", ".">>}

CcLines == LinesUpTo(MaxLineLen) \cup KeywordLines

CcCursors == -1..(MaxLineLen + 1)

NoIndex == SymbolIndex(<<>>, <<>>, <<>>, NoTypes, NoTypes, <<>>, NoTypes)

OneType == [ty \in {<<"v", "a">>} |-> <<<<"v">>, <<"a">>>>]

FullIndex == SymbolIndex(<<<<"v", "a">>, <<"a">>>>, <<<<"a">>>>, <<<<"a">>>>, OneType, [ty \in {<<"a">>} |-> <<<<"a">>>>], <<<<"a">>>>, [ty \in {<<"v", "a">>} |-> <<<<"a">>>>])

VariablesOnly == SymbolIndex(<<<<"v", "a">>>>, <<>>, <<>>, NoTypes, NoTypes, <<>>, NoTypes)

NoVariables == SymbolIndex(<<>>, <<<<"a">>>>, <<<<"a">>>>, OneType, [ty \in {<<"a">>} |-> <<<<"a">>>>], <<<<"a">>>>, NoTypes)

CcIndexes == {NoIndex, FullIndex, VariablesOnly, NoVariables}

NoCandidates == [candidates |-> <<>>, start |-> 0, end |-> 0]

CcStart ==
    /\ ccLine = <<>>
    /\ ccCursor = 0
    /\ ccIndex = NoIndex
    /\ ccOut = NoCandidates
    /\ ccPc = 0

CcApply ==
    /\ ccPc = 0
    /\ ccOut' = CompletionCandidates(ccIndex, ccLine, ccCursor)
    /\ ccPc' = 1
    /\ UNCHANGED <<ccLine, ccCursor, ccIndex>>
    /\ UNCHANGED <<coreVars, syncVars, watchVars, refVars, tabVars, normVars, snapVars, ejVars, resetVars, memoVars, litVars, deqVars, idxVars, loopVars, poolVars, tfdVars>>

CcNext == CcApply


-----------------------------------------------------------------------------
(* The polling watcher: WatchTerraformFilesNotifying, its ticker and the    *)
(* reader of refreshCh. Time is counted in units of 10 ms                   *)

MaxBurst == 3

\* const debounce = 20 * time.Millisecond
Debounce == 2

\* time.NewTicker(20 * time.Millisecond)
TickerInterval == 2

\* cap(refreshCh): make(chan struct{}, 1)
RefreshCap == 1

\* a path under dir: its directories, and the parts of its file name between
\* the dots
WatchPath(dirs, name) == [dirs |-> dirs, name |-> name]

\* the files under dir: two sources, a JSON source, and the mirror of a
\* source in the scratch directory
WatchPaths ==
    { WatchPath(<<>>, <<"main", "tf">>),
      WatchPath(<<>>, <<"x", "tfvars">>),
      WatchPath(<<>>, <<"main", "tf", "json">>),
      WatchPath(<<".terraflow">>, <<"main", "tf">>) }

\* filepath.Ext(path) without its dot: what follows the last dot of the name
filepathExt(p) == IF Len(p.name) >= 2 THEN p.name[Len(p.name)] ELSE ""

\* var watchExtensions = []string{".tf", ".tfvars"}
watchExtensions == {"tf", "tfvars"}

\* pollTerraformFiles: filepath.Walk visits every file under dir and looks
\* at those with a watched extension
Walked(p) == filepathExt(p) \in watchExtensions

\* a path of dir: the file is present, last[path] is set, and the file's
\* modification time is after last[path]
WatchedFile(present, known, newer) ==
    [present |-> present, known |-> known, newer |-> newer]

WatchStart ==
    /\ wFiles = [p \in WatchPaths |-> WatchedFile(FALSE, FALSE, FALSE)]
    /\ wPending = FALSE
    /\ wSince = Debounce
    /\ wUntilTick = TickerInterval
    /\ refreshCh = 0
    /\ wBurst = 0

\* pollTerraformFiles: changed
PollChanged(files) ==
    \E p \in WatchPaths : Walked(p) /\ files[p].present /\ files[p].known /\ files[p].newer

\* pollTerraformFiles: last[path] = mod for every file present
Polled(files) ==
    [p \in WatchPaths |->
        IF Walked(p) /\ files[p].present THEN WatchedFile(TRUE, TRUE, FALSE) ELSE files[p]]

\* a watcher that signals whenever a change is pending
DebounceIgnored(since) == TRUE

\* time.Since(lastFire) >= debounce
DebounceElapsed(since) == since >= Debounce

\* a file under dir is created or rewritten
WatchedWrite(p) ==
    /\ wFiles' = [wFiles EXCEPT ![p] = WatchedFile(TRUE, wFiles[p].known, wFiles[p].known)]
    /\ wFiles' # wFiles
    /\ UNCHANGED <<wPending, wSince, wUntilTick, refreshCh, wBurst>>
    /\ UNCHANGED <<coreVars, syncVars, ccVars, refVars, tabVars, normVars, snapVars, ejVars, resetVars, memoVars, litVars, deqVars, idxVars, loopVars, poolVars, tfdVars>>

\* a file under dir is deleted
WatchedDelete(p) ==
    /\ wFiles[p].present
    /\ wFiles' = [wFiles EXCEPT ![p] = WatchedFile(FALSE, wFiles[p].known, FALSE)]
    /\ UNCHANGED <<wPending, wSince, wUntilTick, refreshCh, wBurst>>
    /\ UNCHANGED <<coreVars, syncVars, ccVars, refVars, tabVars, normVars, snapVars, ejVars, resetVars, memoVars, litVars, deqVars, idxVars, loopVars, poolVars, tfdVars>>

\* 10 ms pass
TimePasses ==
    /\ wSince' = (IF wSince < Debounce THEN wSince + 1 ELSE wSince)
    /\ wUntilTick' = (IF wUntilTick > 0 THEN wUntilTick - 1 ELSE 0)
    /\ <<wSince', wUntilTick'>> # <<wSince, wUntilTick>>
    /\ UNCHANGED <<wFiles, wPending, refreshCh, wBurst>>
    /\ UNCHANGED <<coreVars, syncVars, ccVars, refVars, tabVars, normVars, snapVars, ejVars, resetVars, memoVars, litVars, deqVars, idxVars, loopVars, poolVars, tfdVars>>

\* the body of for range ticker.C once the poll has set pending: the select
\* with its default
WatcherFire(pend, changed) ==
    IF pend /\ DebounceElapsed(wSince) /\ refreshCh < RefreshCap
    THEN /\ refreshCh' = refreshCh + 1
         /\ wSince' = 0
         /\ wPending' = FALSE
         /\ wBurst' = 0
    ELSE /\ wPending' = pend
         /\ wBurst' = (IF changed /\ wBurst < MaxBurst THEN wBurst + 1 ELSE wBurst)
         /\ UNCHANGED <<refreshCh, wSince>>

\* one iteration of for range ticker.C
WatcherTick ==
    /\ wUntilTick = 0
    /\ \E next \in 1..TickerInterval : wUntilTick' = next
    /\ wFiles' = Polled(wFiles)
    /\ WatcherFire(wPending \/ PollChanged(wFiles), PollChanged(wFiles))
    /\ UNCHANGED <<coreVars, syncVars, ccVars, refVars, tabVars, normVars, snapVars, ejVars, resetVars, memoVars, litVars, deqVars, idxVars, loopVars, poolVars, tfdVars>>

\* the refresher's for range refreshCh receives a signal
RefreshTake ==
    /\ refreshCh > 0
    /\ refreshCh' = refreshCh - 1
    /\ UNCHANGED <<wFiles, wPending, wSince, wUntilTick, wBurst>>
    /\ UNCHANGED <<coreVars, syncVars, ccVars, refVars, tabVars, normVars, snapVars, ejVars, resetVars, memoVars, litVars, deqVars, idxVars, loopVars, poolVars, tfdVars>>

WatchNext ==
    \/ \E p \in WatchPaths : WatchedWrite(p)
    \/ \E p \in WatchPaths : WatchedDelete(p)
    \/ TimePasses
    \/ WatcherTick
    \/ RefreshTake

-----------------------------------------------------------------------------
(* The refresher goroutine of RunREPL: sync, literal patch, targeted        *)
(* evaluated patch, restart, index rebuild, notification                    *)

MaxEdits == 2

\* cap(refreshNotify): make(chan struct{}, 1)
NotifyCap == 1

Versions(tf, tfvars) == [tf |-> tf, tfvars |-> tfvars]

\* the stages of one refresh
Pipeline == <<"sync", "lit", "targeted">>

RefStart ==
    /\ rfPc = "wait"
    /\ rfSrc = Versions(0, 0)
    /\ rfSynced = Versions(0, 0)
    /\ rfTouched = FALSE
    /\ rfChangedTF = FALSE
    /\ rfState = [lit |-> 0, eval |-> Versions(0, 0)]
    /\ rfIndex = 0
    /\ refreshNotify = 0
    /\ rfDone = <<>>

\* Sync's changed: a tracked file differs from what was mirrored
ChangedSince(source, synced) == source # synced

\* Sync's changed_tf: a .tf file differs from what was mirrored
ChangedTFSince(source, synced) == source.tf # synced.tf

watchRest == <<wFiles, wPending, wSince, wUntilTick, wBurst>>

\* the user saves a .tf file under cwd
EditTF ==
    /\ rfSrc.tf < MaxEdits
    /\ rfSrc' = [rfSrc EXCEPT !.tf = @ + 1]
    /\ UNCHANGED <<rfPc, rfSynced, rfTouched, rfChangedTF, rfState, rfIndex, refreshNotify, rfDone>>
    /\ UNCHANGED <<coreVars, syncVars, ccVars, watchVars, tabVars, normVars, snapVars, ejVars, resetVars, memoVars, litVars, deqVars, idxVars, loopVars, poolVars, tfdVars>>

\* the user saves a .tfvars file under cwd
EditVars ==
    /\ rfSrc.tfvars < MaxEdits
    /\ rfSrc' = [rfSrc EXCEPT !.tfvars = @ + 1]
    /\ UNCHANGED <<rfPc, rfSynced, rfTouched, rfChangedTF, rfState, rfIndex, refreshNotify, rfDone>>
    /\ UNCHANGED <<coreVars, syncVars, ccVars, watchVars, tabVars, normVars, snapVars, ejVars, resetVars, memoVars, litVars, deqVars, idxVars, loopVars, poolVars, tfdVars>>

\* the watcher sends on refreshCh (select with default)
WatcherSignal ==
    /\ refreshCh < RefreshCap
    /\ refreshCh' = refreshCh + 1
    /\ UNCHANGED <<rfPc, rfSrc, rfSynced, rfTouched, rfChangedTF, rfState, rfIndex, refreshNotify, rfDone>>
    /\ UNCHANGED watchRest
    /\ UNCHANGED <<coreVars, syncVars, ccVars, tabVars, normVars, snapVars, ejVars, resetVars, memoVars, litVars, deqVars, idxVars, loopVars, poolVars, tfdVars>>

\* for range refreshCh
RfReceive ==
    /\ rfPc = "wait"
    /\ refreshCh > 0
    /\ refreshCh' = refreshCh - 1
    /\ rfPc' = "sync"
    /\ rfDone' = <<>>
    /\ UNCHANGED <<rfSrc, rfSynced, rfTouched, rfChangedTF, rfState, rfIndex, refreshNotify>>
    /\ UNCHANGED watchRest
    /\ UNCHANGED <<coreVars, syncVars, ccVars, tabVars, normVars, snapVars, ejVars, resetVars, memoVars, litVars, deqVars, idxVars, loopVars, poolVars, tfdVars>>

\* changed, changedTF, _ := SyncToScratch(cwd, scratchDir); if !changed { continue }
RfSync ==
    /\ rfPc = "sync"
    /\ rfSynced' = rfSrc
    /\ rfChangedTF' = ChangedTFSince(rfSrc, rfSynced)
    /\ rfTouched' = (rfTouched \/ ChangedTFSince(rfSrc, rfSynced))
    /\ rfDone' = Append(rfDone, "sync")
    /\ rfPc' = IF ChangedSince(rfSrc, rfSynced) THEN "lit" ELSE "wait"
    /\ UNCHANGED <<rfSrc, rfState, rfIndex, refreshNotify>>
    /\ UNCHANGED <<coreVars, syncVars, ccVars, watchVars, tabVars, normVars, snapVars, ejVars, resetVars, memoVars, litVars, deqVars, idxVars, loopVars, poolVars, tfdVars>>

\* PatchStateFromConfigLiterals(scratchDir, statePath)
RfLiterals ==
    /\ rfPc = "lit"
    /\ rfState' = [rfState EXCEPT !.lit = rfSynced.tf]
    /\ rfDone' = Append(rfDone, "lit")
    /\ rfPc' = "scan"
    /\ UNCHANGED <<rfSrc, rfSynced, rfTouched, rfChangedTF, rfIndex, refreshNotify>>
    /\ UNCHANGED <<coreVars, syncVars, ccVars, watchVars, tabVars, normVars, snapVars, ejVars, resetVars, memoVars, litVars, deqVars, idxVars, loopVars, poolVars, tfdVars>>

\* the walk that collects into changedFiles the .tf files under scratchDir
\* whose ModTime is after lastScan; with none, lastScan = time.Now()
RfScan ==
    /\ rfPc = "scan"
    /\ rfPc' = IF rfTouched THEN "targeted" ELSE "restart"
    /\ UNCHANGED <<rfSrc, rfSynced, rfTouched, rfChangedTF, rfState, rfIndex, refreshNotify, rfDone>>
    /\ UNCHANGED <<coreVars, syncVars, ccVars, watchVars, tabVars, normVars, snapVars, ejVars, resetVars, memoVars, litVars, deqVars, idxVars, loopVars, poolVars, tfdVars>>

\* PatchTargetedExactByFiles up to its wg.Wait(), then lastScan = time.Now()
RfTargeted ==
    /\ rfPc = "targeted"
    /\ rfState' = [rfState EXCEPT !.eval = rfSynced]
    /\ rfTouched' = FALSE
    /\ rfDone' = Append(rfDone, "targeted")
    /\ rfPc' = "restart"
    /\ UNCHANGED <<rfSrc, rfSynced, rfChangedTF, rfIndex, refreshNotify>>
    /\ UNCHANGED <<coreVars, syncVars, ccVars, watchVars, tabVars, normVars, snapVars, ejVars, resetVars, memoVars, litVars, deqVars, idxVars, loopVars, poolVars, tfdVars>>

\* session.Restart(); if !changedTFOnly { index = BuildSymbolIndex(cwd) }
RfRestart ==
    /\ rfPc = "restart"
    /\ rfIndex' = IF rfChangedTF THEN rfSrc.tf ELSE rfIndex
    /\ rfPc' = "notify"
    /\ UNCHANGED <<rfSrc, rfSynced, rfTouched, rfChangedTF, rfState, refreshNotify, rfDone>>
    /\ UNCHANGED <<coreVars, syncVars, ccVars, watchVars, tabVars, normVars, snapVars, ejVars, resetVars, memoVars, litVars, deqVars, idxVars, loopVars, poolVars, tfdVars>>

\* refreshNotify <- struct{}{}
RfNotify ==
    /\ rfPc = "notify"
    /\ refreshNotify < NotifyCap
    /\ refreshNotify' = refreshNotify + 1
    /\ rfPc' = "wait"
    /\ UNCHANGED <<rfSrc, rfSynced, rfTouched, rfChangedTF, rfState, rfIndex, rfDone>>
    /\ UNCHANGED <<coreVars, syncVars, ccVars, watchVars, tabVars, normVars, snapVars, ejVars, resetVars, memoVars, litVars, deqVars, idxVars, loopVars, poolVars, tfdVars>>

\* the REPL loop: case <-refreshNotify
ReplRender ==
    /\ refreshNotify > 0
    /\ refreshNotify' = refreshNotify - 1
    /\ UNCHANGED <<rfPc, rfSrc, rfSynced, rfTouched, rfChangedTF, rfState, rfIndex, rfDone>>
    /\ UNCHANGED <<coreVars, syncVars, ccVars, watchVars, tabVars, normVars, snapVars, ejVars, resetVars, memoVars, litVars, deqVars, idxVars, loopVars, poolVars, tfdVars>>

RefNext ==
    \/ EditTF
    \/ EditVars
    \/ WatcherSignal
    \/ RfReceive
    \/ RfSync
    \/ RfLiterals
    \/ RfScan
    \/ RfTargeted
    \/ RfRestart
    \/ RfNotify
    \/ ReplRender

-----------------------------------------------------------------------------
(* The line editor of RunREPL: the loop over the bytes of a chunk read from *)
(* the terminal, its key handlers and the ghost render() computes. A string *)
(* is the sequence of its characters; the control bytes go by their names   *)

\* chunks read from the terminal in a run
MaxKeys == 4

ESC == "esc"
TAB == "tab"
CR == "cr"
LF == "lf"
DEL == "del"
ETX == "etx"

\* b >= 32 && b <= 126
IsPrintable(b) == \E k \in 1..Len(Ascii) : Ascii[k] = b

\* strings.Contains(s, c) for a one-character c
Contains(s, c) == \E k \in 1..Len(s) : s[k] = c

\* strings.HasSuffix
HasSuffix(s, suffix) ==
    Len(suffix) <= Len(s) /\ SubSeq(s, Len(s) - Len(suffix) + 1, Len(s)) = suffix

\* index.Functions, as LoadTerraformFunctions returns it
ReplFunctions == <<<<"a", "b", "s">>>>

\* the index the editor completes against
ReplIndex == FullIndex

\* a command run in an earlier session, as the history file holds it
OldCommand == <<"v", "a", "r", ".", "a">>

Editor(history) ==
    [buf |-> <<>>, cursor |-> 0,
     lastTabCands |-> <<>>, lastTabIdx |-> -1,
     lastTabPrefix |-> <<>>, lastTabSuffix |-> <<>>,
     lastTabStart |-> 0, lastTabEnd |-> 0,
     history |-> history, histIdx |-> -1,
     inPaste |-> FALSE, suppressGhostUntilInput |-> FALSE, ghostCache |-> <<>>]

ReplStart ==
    /\ repl = Editor(<<>>)
    /\ readKey = <<>>
    /\ keyCount = 0

\* cycleActive of the TAB, Shift+TAB and Enter handlers
CycleActive(r) ==
    /\ r.lastTabIdx >= 0
    /\ HasPrefix(r.buf, r.lastTabPrefix)
    /\ HasSuffix(r.buf, r.lastTabSuffix)

\* cycleActive && len(lastTabCands) > 0
Cycling(r) == CycleActive(r) /\ Len(r.lastTabCands) > 0

\* lastTabCands = nil, with lastTabIdx left as it is
CancelCycleKeepsIdx(r) == [r EXCEPT !.lastTabCands = <<>>]

\* lastTabCands = nil; lastTabIdx = -1
CancelCycle(r) == [r EXCEPT !.lastTabCands = <<>>, !.lastTabIdx = -1]

\* the reset after a suggestion is accepted
ResetCycle(r) ==
    [r EXCEPT !.lastTabCands = <<>>, !.lastTabIdx = -1,
              !.lastTabPrefix = <<>>, !.lastTabSuffix = <<>>,
              !.lastTabStart = 0, !.lastTabEnd = 0,
              !.suppressGhostUntilInput = TRUE]

\* letters, digits and the underscore
IsIdentChar(c) ==
    \/ c = "_"
    \/ (Code(c) >= Code("A") /\ Code(c) <= Code("Z"))
    \/ (Code(c) >= Code("a") /\ Code(c) <= Code("z"))
    \/ (Code(c) >= Code("0") /\ Code(c) <= Code("9"))

RECURSIVE IdentStart(_, _)
\* where the bare identifier that ends at start begins
IdentStart(line, start) ==
    IF start > 0 /\ IsIdentChar(line[start]) THEN IdentStart(line, start - 1) ELSE start

RECURSIVE FirstFunction(_, _)
\* the rest of the first function name that starts with lt, and "("
FirstFunction(lt, k) ==
    IF k > Len(ReplFunctions) THEN <<>>
    ELSE IF HasPrefix(ReplFunctions[k], lt) THEN From(ReplFunctions[k], Len(lt)) \o <<"(">>
    ELSE FirstFunction(lt, k + 1)

FunctionGhostFrom(line, start) ==
    IF start = Len(line) THEN <<>>
    ELSE IF start > 0 /\ line[start] = "." THEN <<>>
    ELSE FirstFunction(ToLower(From(line, start)), 1)

\* the function ghost of the identifier the line ends with
FunctionGhost(line) == FunctionGhostFrom(line, IdentStart(line, Len(line)))

\* the ghost of the selected candidate when it extends the current token
SelectionGhost(r) ==
    IF /\ r.lastTabIdx >= 0 /\ Len(r.lastTabCands) > 0
       /\ r.lastTabStart >= 0 /\ r.lastTabStart <= Len(r.buf)
       /\ r.lastTabEnd >= r.lastTabStart /\ r.lastTabEnd <= Len(r.buf)
       /\ HasPrefix(r.lastTabCands[r.lastTabIdx + 1], SubSeq(r.buf, r.lastTabStart + 1, r.lastTabEnd))
       /\ Len(r.lastTabCands[r.lastTabIdx + 1]) > r.lastTabEnd - r.lastTabStart
    THEN From(r.lastTabCands[r.lastTabIdx + 1], r.lastTabEnd - r.lastTabStart)
    ELSE <<>>

RECURSIVE HistoryScan(_, _, _)
\* the most recent history entry that extends prefix, without the prefix
HistoryScan(history, prefix, k) ==
    IF k < 1 THEN <<>>
    ELSE IF HasPrefix(history[k], prefix) /\ history[k] # prefix THEN From(history[k], Len(prefix))
    ELSE HistoryScan(history, prefix, k - 1)

\* bestHistorySuggestion
bestHistorySuggestion(r, prefix) ==
    IF Len(r.history) = 0 THEN <<>>
    ELSE IF r.cursor # Len(r.buf) THEN <<>>
    ELSE IF TrimSpace(prefix) = <<>> THEN <<>>
    ELSE HistoryScan(r.history, prefix, Len(r.history))

GhostAfterFunction(r, ghost) ==
    IF ghost = <<>> THEN bestHistorySuggestion(r, r.buf) ELSE ghost

GhostAfterSelection(r, ghost) ==
    IF ghost = <<>> /\ r.lastTabIdx < 0 /\ r.cursor = Len(r.buf) /\ Len(ReplFunctions) > 0
    THEN GhostAfterFunction(r, FunctionGhost(r.buf))
    ELSE GhostAfterFunction(r, ghost)

\* the ghost render() leaves in ghostCache
Ghost(r) ==
    IF Contains(r.buf, LF) THEN <<>>
    ELSE IF r.suppressGhostUntilInput THEN <<>>
    ELSE GhostAfterSelection(r, SelectionGhost(r))

\* render(), as far as the editor's state goes
render(r) == [r EXCEPT !.ghostCache = Ghost(r)]

\* buf with c put in at the cursor
InsertAt(r, c) ==
    [r EXCEPT !.buf = SubSeq(r.buf, 1, r.cursor) \o <<c>> \o From(r.buf, r.cursor),
              !.cursor = r.cursor + 1]

\* a printable byte, or a byte of a paste: inserted, and the cycle cancelled
InsertByte(r, c) ==
    render([CancelCycle(InsertAt(r, c)) EXCEPT !.suppressGhostUntilInput = FALSE])

\* a byte read in bracketed paste, CR mapped to LF
OnPaste(r, b) ==
    IF b = CR \/ b = LF THEN InsertByte(r, LF)
    ELSE IF IsPrintable(b) \/ b = TAB THEN InsertByte(r, b)
    ELSE r

\* buf = prefix + sel + suffix, the cursor after sel, the cycle reset
AcceptSelected(r) ==
    render(ResetCycle([r EXCEPT
        !.buf = r.lastTabPrefix \o r.lastTabCands[r.lastTabIdx + 1] \o r.lastTabSuffix,
        !.cursor = Len(r.lastTabPrefix) + Len(r.lastTabCands[r.lastTabIdx + 1])]))

\* the ghost appended at the end of the line, the cycle reset
AcceptGhost(r) ==
    render(ResetCycle([r EXCEPT !.buf = r.buf \o r.ghostCache,
                                !.cursor = Len(r.buf) + Len(r.ghostCache),
                                !.ghostCache = <<>>]))

\* case 'C'
OnRight(r) ==
    IF Contains(r.buf, LF) THEN r
    ELSE IF r.cursor < Len(r.buf) THEN render(CancelCycle([r EXCEPT !.cursor = r.cursor + 1]))
    ELSE IF r.ghostCache # <<>> THEN AcceptGhost(r)
    ELSE IF r.lastTabIdx >= 0 /\ Len(r.lastTabCands) > 0 THEN AcceptSelected(r)
    ELSE r

\* case 'D'
OnLeft(r) ==
    IF Contains(r.buf, LF) THEN r
    ELSE IF r.cursor > 0 THEN render([r EXCEPT !.cursor = r.cursor - 1])
    ELSE render(r)

HistoryAt(r, idx) ==
    render([r EXCEPT !.histIdx = idx, !.buf = r.history[idx + 1],
                     !.cursor = Len(r.history[idx + 1])])

UpFrom(r, idx) == HistoryAt(r, IF idx > 0 THEN idx - 1 ELSE idx)

\* case 'A'
OnUp(r) ==
    IF Len(r.history) > 0
    THEN UpFrom(r, IF r.histIdx = -1 THEN Len(r.history) ELSE r.histIdx)
    ELSE render(r)

\* case 'B'
OnDown(r) ==
    IF r.histIdx < 0 THEN render(r)
    ELSE IF r.histIdx + 1 >= Len(r.history)
    THEN render([r EXCEPT !.histIdx = -1, !.buf = <<>>, !.cursor = 0])
    ELSE HistoryAt(r, r.histIdx + 1)

\* the longest prefix of common that c starts with
CommonLen(common, c) ==
    CHOOSE n \in 0..Len(common) :
        /\ HasPrefix(c, SubSeq(common, 1, n))
        /\ \A m \in (n + 1)..Len(common) : ~HasPrefix(c, SubSeq(common, 1, m))

RECURSIVE CommonPrefix(_, _)
\* the longest common prefix of common and the candidates of rest
CommonPrefix(common, rest) ==
    IF rest = <<>> THEN common
    ELSE CommonPrefix(SubSeq(common, 1, CommonLen(common, Head(rest))), Tail(rest))

\* the token replaced by the common prefix of the candidates when that
\* prefix is not empty and differs from the token
CycleFrom(r, cands, start, end, common, idx) ==
    IF common # <<>> /\ common # SubSeq(r.buf, start + 1, end)
    THEN [r EXCEPT !.buf = SubSeq(r.buf, 1, start) \o common \o From(r.buf, end),
                   !.cursor = start + Len(common),
                   !.lastTabCands = cands, !.lastTabIdx = idx,
                   !.lastTabStart = start, !.lastTabEnd = start + Len(common),
                   !.lastTabPrefix = SubSeq(r.buf, 1, start),
                   !.lastTabSuffix = From(r.buf, end)]
    ELSE [r EXCEPT !.lastTabCands = cands, !.lastTabIdx = idx,
                   !.lastTabStart = start, !.lastTabEnd = end,
                   !.lastTabPrefix = SubSeq(r.buf, 1, start),
                   !.lastTabSuffix = From(r.buf, end)]

\* a cycle initialised over the candidates of cc, the selection at idx
StartCycle(r, cc, idx) ==
    CycleFrom(r, cc.candidates, cc.start, cc.end,
              CommonPrefix(cc.candidates[1], Tail(cc.candidates)), idx)

\* index.CompletionCandidates(line, byteOffsetOfRuneIndex(line, cursor))
CandidatesOf(r) == CompletionCandidates(ReplIndex, r.buf, r.cursor)

\* lastTabIdx--, wrapping to the last candidate
StepBack(r) ==
    [r EXCEPT !.lastTabIdx = IF r.lastTabIdx - 1 < 0 THEN Len(r.lastTabCands) - 1
                             ELSE r.lastTabIdx - 1]

\* Shift+TAB when no cycle is reused: the candidates computed, the cycle
\* started from the last of them
ShiftTabFresh(r, cc, wasActive) ==
    IF Len(cc.candidates) = 0 THEN render(r)
    ELSE IF wasActive
    THEN render(StepBack(StartCycle(r, cc, Len(cc.candidates) - 1)))
    ELSE render(StartCycle(r, cc, Len(cc.candidates) - 1))

\* case 'Z'
OnShiftTab(r) ==
    IF Contains(r.buf, LF) THEN render(r)
    ELSE IF Cycling(r) THEN render(StepBack([r EXCEPT !.suppressGhostUntilInput = FALSE]))
    ELSE ShiftTabFresh([r EXCEPT !.suppressGhostUntilInput = FALSE], CandidatesOf(r), FALSE)

\* the bytes of ESC [ Z the loop has consumed when the handler is left:
\* all three where it leaves early, one where it has drawn the list
ShiftTabConsumed(r) ==
    IF Contains(r.buf, LF) THEN 3
    ELSE IF Cycling(r) THEN 1
    ELSE IF Len(CandidatesOf(r).candidates) = 0 THEN 3
    ELSE 1

\* ESC [ c
OnCsi(r, c) ==
    IF c = "C" THEN OnRight(r)
    ELSE IF c = "D" THEN OnLeft(r)
    ELSE IF c = "A" THEN OnUp(r)
    ELSE IF c = "B" THEN OnDown(r)
    ELSE IF c = "Z" THEN OnShiftTab(r)
    ELSE r

CsiConsumed(r, c) == IF c = "Z" THEN ShiftTabConsumed(r) ELSE 3

\* case 3
OnCtrlC(r) == render([r EXCEPT !.buf = <<>>, !.cursor = 0, !.histIdx = -1])

\* strings.ReplaceAll(s, "\n", " ") and the like
SpacesForBreaks(s) == [k \in 1..Len(s) |-> IF s[k] \in {LF, CR, TAB} THEN SP ELSE s[k]]

\* normalizeInputForEval
normalizeInputForEval(s) == IF s = <<>> THEN s ELSE TrimSpace(SpacesForBreaks(s))

\* history with the submitted line, unless it repeats the last entry
Recorded(history, normalized) ==
    IF normalized = <<>> THEN history
    ELSE IF Len(history) > 0 /\ history[Len(history)] = normalized THEN history
    ELSE Append(history, normalized)

\* the line submitted: recorded, evaluated, and the editor emptied
Submit(r, normalized) ==
    render([r EXCEPT !.history = Recorded(r.history, normalized),
                     !.histIdx = IF normalized = <<>> THEN r.histIdx ELSE -1,
                     !.buf = <<>>, !.cursor = 0,
                     !.lastTabCands = <<>>, !.lastTabIdx = -1,
                     !.ghostCache = <<>>])

\* case '\r', '\n'
OnEnter(r) ==
    IF Cycling(r) THEN AcceptSelected(r)
    ELSE IF r.cursor = Len(r.buf) /\ r.ghostCache # <<>> THEN AcceptGhost(r)
    ELSE Submit(r, normalizeInputForEval(r.buf))

\* case 127, 8
OnBackspace(r) ==
    IF r.cursor > 0
    THEN render(CancelCycle([r EXCEPT
            !.buf = SubSeq(r.buf, 1, r.cursor - 1) \o From(r.buf, r.cursor),
            !.cursor = r.cursor - 1]))
    ELSE r

\* lastTabIdx++, wrapping to the first candidate
StepForward(r) ==
    [r EXCEPT !.lastTabIdx = IF r.lastTabIdx + 1 >= Len(r.lastTabCands) THEN 0
                             ELSE r.lastTabIdx + 1]

\* TAB past the function ghost: no candidates rings the bell, a cycle that
\* is not active is initialised, an active one advances
TabCycle(r, cc, wasActive) ==
    IF Len(cc.candidates) = 0 THEN render(r)
    ELSE IF ~wasActive THEN render(StartCycle(r, cc, 0))
    ELSE render(StepForward(r))

\* the function ghost accepted: appended, and no cycle started
AcceptFunction(r, fghost) ==
    render(ResetCycle([r EXCEPT !.buf = r.buf \o fghost,
                                !.cursor = Len(r.buf) + Len(fghost)]))

\* TAB outside a cycle that is reused
TabFresh(r, cc, wasActive) ==
    IF /\ ~wasActive /\ r.cursor = Len(r.buf) /\ Len(ReplFunctions) > 0
       /\ Len(cc.candidates) = 0 /\ FunctionGhost(r.buf) # <<>>
    THEN AcceptFunction(r, FunctionGhost(r.buf))
    ELSE TabCycle(r, cc, wasActive)

\* case 9
OnTab(r) ==
    IF Contains(r.buf, LF) THEN render([r EXCEPT !.suppressGhostUntilInput = FALSE])
    ELSE IF Cycling(r) THEN render(StepForward([r EXCEPT !.suppressGhostUntilInput = FALSE]))
    ELSE TabFresh([r EXCEPT !.suppressGhostUntilInput = FALSE], CandidatesOf(r), CycleActive(r))

\* switch b
OnByte(r, b) ==
    IF b = ETX THEN OnCtrlC(r)
    ELSE IF b = CR \/ b = LF THEN OnEnter(r)
    ELSE IF b = DEL THEN OnBackspace(r)
    ELSE IF b = TAB THEN OnTab(r)
    ELSE IF IsPrintable(b) THEN InsertByte(r, b)
    ELSE r

\* ESC [ 2 0 d ~ at position i of the chunk
IsPasteMarker(key, i, d) ==
    /\ i + 5 <= Len(key)
    /\ SubSeq(key, i, i + 5) = <<ESC, "[", "2", "0", d, "~">>

RECURSIVE Feed(_, _, _)
\* for i < n: the bytes of the chunk from position i on, handled in order
Feed(r, key, i) ==
    IF i > Len(key) THEN r
    ELSE IF IsPasteMarker(key, i, "0") THEN Feed([r EXCEPT !.inPaste = TRUE], key, i + 6)
    ELSE IF IsPasteMarker(key, i, "1") THEN Feed(render([r EXCEPT !.inPaste = FALSE]), key, i + 6)
    ELSE IF r.inPaste THEN Feed(OnPaste(r, key[i]), key, i + 1)
    ELSE IF key[i] = ESC /\ i + 2 <= Len(key) /\ key[i + 1] = "["
    THEN Feed(OnCsi(r, key[i + 2]), key, i + CsiConsumed(r, key[i + 2]))
    ELSE IF key[i] = ESC THEN Feed(r, key, i + 1)
    ELSE Feed(OnByte(r, key[i]), key, i + 1)

\* what the terminal sends for a key
TabKey == <<TAB>>
ShiftTabKey == <<ESC, "[", "Z">>
EnterKey == <<CR>>
BackspaceKey == <<DEL>>
CtrlCKey == <<ETX>>
ArrowKey(c) == <<ESC, "[", c>>
PastedNewline == <<ESC, "[", "2", "0", "0", "~", LF, ESC, "[", "2", "0", "1", "~">>

\* the characters typed
TypedChars == {"v", "a", "."}

\* tty.Read(readKey) and the loop over what it read
ReadKeys(key) ==
    /\ keyCount < MaxKeys
    /\ keyCount' = keyCount + 1
    /\ readKey' = key
    /\ repl' = Feed(repl, key, 1)
    /\ UNCHANGED <<coreVars, syncVars, ccVars, watchVars, refVars, normVars, snapVars, ejVars, resetVars, memoVars, litVars, deqVars, idxVars, loopVars, poolVars, tfdVars>>

PressTab == ReadKeys(TabKey)
PressShiftTab == ReadKeys(ShiftTabKey)
PressEnter == ReadKeys(EnterKey)
PressBackspace == ReadKeys(BackspaceKey)
PressCtrlC == ReadKeys(CtrlCKey)
PressArrow(c) == ReadKeys(ArrowKey(c))
Type(c) == ReadKeys(<<c>>)
PasteNewline == ReadKeys(PastedNewline)

ReplNext ==
    \/ PressTab
    \/ PressShiftTab
    \/ PressEnter
    \/ PressBackspace
    \/ PressCtrlC
    \/ \E c \in {"A", "B", "C", "D"} : PressArrow(c)
    \/ \E c \in TypedChars : Type(c)
    \/ PasteNewline

-----------------------------------------------------------------------------
(* NormalizeCommasInMultiline: the scan that puts commas between the items  *)
(* of multi-line lists and maps. A string is the sequence of its runes      *)

\* the length of the inputs enumerated
MaxInputLen == 4

\* the zero rune
NUL == "nul"

\* frame
Frame(opener, indexInStack) ==
    [opener |-> opener, indexInStack |-> indexInStack, lastSigAtTopLevel |-> opener,
     lineHasTopLevelToken |-> FALSE, insertedAnyComma |-> FALSE]

\* the locals of the function before its loop
ScanStart ==
    [out |-> <<>>, stack |-> <<>>, frames |-> <<>>,
     inString |-> FALSE, stringEsc |-> FALSE,
     inLineComment |-> FALSE, inBlockComment |-> FALSE]

\* frames[len(frames)-1]
Top(n) == n.frames[Len(n.frames)]

SetTop(n, f) == [n EXCEPT !.frames[Len(n.frames)] = f]

Emit(n, r) == [n EXCEPT !.out = Append(n.out, r)]

atBaseDepth(n) ==
    /\ Len(n.frames) > 0
    /\ Len(n.stack) = Top(n).indexInStack + 1
    /\ n.stack[Len(n.stack)] = Top(n).opener

\* out with a comma after its first k runes
InsertAfter(out, k) == SubSeq(out, 1, k) \o <<",">> \o From(out, k)

RECURSIVE LastNonBlank(_, _)
\* the last position <= j of out that holds neither a space nor a tab
LastNonBlank(out, j) ==
    IF j >= 1 /\ out[j] \in {SP, TAB} THEN LastNonBlank(out, j - 1) ELSE j

CommaAtBlankEnd(out, j) ==
    IF j >= 1 /\ out[j] = LF THEN InsertAfter(out, j - 1) ELSE InsertAfter(out, j)

insertCommaBeforeTrailingSpace(out) == CommaAtBlankEnd(out, LastNonBlank(out, Len(out)))

insertCommaAtLineEnd(out) ==
    IF Len(out) = 0 THEN <<",">>
    ELSE IF out[Len(out)] = LF THEN InsertAfter(out, Len(out) - 1)
    ELSE insertCommaBeforeTrailingSpace(out)

setLastSig(n, r) ==
    IF atBaseDepth(n) THEN SetTop(n, [Top(n) EXCEPT !.lastSigAtTopLevel = r]) ELSE n

markTopLevelToken(n) ==
    IF atBaseDepth(n) THEN SetTop(n, [Top(n) EXCEPT !.lineHasTopLevelToken = TRUE]) ELSE n

RECURSIVE LineEnd(_, _)
\* the position of the first newline at or after j, Len(runes) + 1 when none
LineEnd(runes, j) ==
    IF j <= Len(runes) /\ runes[j] # LF THEN LineEnd(runes, j + 1) ELSE j

RECURSIVE BlockEnd(_, _)
\* the position after the first "/" at or after j that follows a "*"
BlockEnd(runes, j) ==
    IF j > Len(runes) THEN j
    ELSE IF runes[j] = "/" /\ j - 1 >= 1 /\ runes[j - 1] = "*" THEN j + 1
    ELSE BlockEnd(runes, j + 1)

RECURSIVE NextSigFrom(_, _)
\* the first rune at or after j outside blanks and comments, and the rune
\* after it
NextSigFrom(runes, j) ==
    IF j > Len(runes) THEN <<NUL, NUL>>
    ELSE IF runes[j] \in {SP, TAB, CR} THEN NextSigFrom(runes, j + 1)
    ELSE IF runes[j] = "#" THEN NextSigFrom(runes, LineEnd(runes, j))
    ELSE IF runes[j] = "/" /\ j + 1 <= Len(runes) /\ runes[j + 1] = "/"
    THEN NextSigFrom(runes, LineEnd(runes, j))
    ELSE IF runes[j] = "/" /\ j + 1 <= Len(runes) /\ runes[j + 1] = "*"
    THEN NextSigFrom(runes, BlockEnd(runes, j + 2))
    ELSE <<runes[j], IF j + 1 <= Len(runes) THEN runes[j + 1] ELSE NUL>>

nextSignificantAfter(runes, i) == NextSigFrom(runes, i + 1)

\* the last significant runes after which a newline gets no comma
EndsItem(f) == f.lastSigAtTopLevel \in {",", f.opener, "=", ":", ">"}

\* the next significant token is ':' or '=>', or closes the frame
NoCommaBefore(f, nx) ==
    \/ nx[1] = ":"
    \/ (nx[1] = "=" /\ nx[2] = ">")
    \/ (f.opener = "{" /\ nx[1] = "}")
    \/ (f.opener = "[" /\ nx[1] = "]")

LineDone(n) == SetTop(n, [Top(n) EXCEPT !.lineHasTopLevelToken = FALSE])

CommaAtNewline(n) ==
    SetTop(Emit(n, ","), [Top(n) EXCEPT !.lastSigAtTopLevel = ",",
                                         !.lineHasTopLevelToken = FALSE,
                                         !.insertedAnyComma = TRUE])

handleNewline(n, runes, i) ==
    IF Len(n.frames) = 0 THEN n
    ELSE IF ~atBaseDepth(n) THEN n
    ELSE IF ~Top(n).lineHasTopLevelToken THEN n
    ELSE IF EndsItem(Top(n)) THEN LineDone(n)
    ELSE IF NoCommaBefore(Top(n), nextSignificantAfter(runes, i)) THEN LineDone(n)
    ELSE CommaAtNewline(n)

handleBeforeClose(n) ==
    IF Len(n.frames) = 0 THEN n
    ELSE IF ~atBaseDepth(n) THEN n
    ELSE IF /\ Top(n).opener = "["
            /\ Top(n).lastSigAtTopLevel # ","
            /\ Top(n).lastSigAtTopLevel # Top(n).opener
            /\ Top(n).lastSigAtTopLevel # NUL
            /\ Top(n).insertedAnyComma
    THEN SetTop([n EXCEPT !.out = insertCommaAtLineEnd(n.out)],
                [Top(n) EXCEPT !.lastSigAtTopLevel = ","])
    ELSE n

\* before a comment starts at base depth the item before it gets its comma
BeforeComment(n) ==
    IF /\ Len(n.frames) > 0 /\ atBaseDepth(n)
       /\ Top(n).lineHasTopLevelToken
       /\ Top(n).lastSigAtTopLevel # ","
       /\ Top(n).lastSigAtTopLevel # Top(n).opener
       /\ Top(n).lastSigAtTopLevel # "="
    THEN SetTop([n EXCEPT !.out = insertCommaBeforeTrailingSpace(n.out)],
                [Top(n) EXCEPT !.lastSigAtTopLevel = ","])
    ELSE n

StartLineComment(n, r) == [Emit(BeforeComment(n), r) EXCEPT !.inLineComment = TRUE]

\* a rune read in a line comment
InLineComment(n, runes, i) ==
    IF runes[i] # LF THEN Emit(n, runes[i])
    ELSE IF atBaseDepth(handleNewline(n, runes, i))
    THEN LineDone([Emit(handleNewline(n, runes, i), LF) EXCEPT !.inLineComment = FALSE])
    ELSE [Emit(handleNewline(n, runes, i), LF) EXCEPT !.inLineComment = FALSE]

\* a rune read in a block comment
InBlockComment(n, r) ==
    IF r = "/" /\ Len(n.out) >= 1 /\ n.out[Len(n.out)] = "*"
    THEN [Emit(n, r) EXCEPT !.inBlockComment = FALSE]
    ELSE Emit(n, r)

\* a rune read in a string
InString(n, r) ==
    IF n.stringEsc THEN [Emit(n, r) EXCEPT !.stringEsc = FALSE]
    ELSE IF r = "backslash" THEN [Emit(n, r) EXCEPT !.stringEsc = TRUE]
    ELSE IF r = Q THEN markTopLevelToken(setLastSig([Emit(n, r) EXCEPT !.inString = FALSE], Q))
    ELSE Emit(n, r)

Open(n, r) ==
    Emit([n EXCEPT !.stack = Append(n.stack, r),
                   !.frames = Append(n.frames, Frame(r, Len(n.stack)))], r)

PopStack(n) ==
    IF Len(n.stack) > 0 THEN [n EXCEPT !.stack = SubSeq(n.stack, 1, Len(n.stack) - 1)] ELSE n

PopFrame(n, r) ==
    IF /\ Len(n.frames) > 0
       /\ \/ (r = "]" /\ Top(n).opener = "[")
          \/ (r = "}" /\ Top(n).opener = "{")
    THEN [n EXCEPT !.frames = SubSeq(n.frames, 1, Len(n.frames) - 1)]
    ELSE n

Close(n, r) ==
    markTopLevelToken(setLastSig(Emit(PopFrame(PopStack(handleBeforeClose(n)), r), r), r))

\* unicode.IsSpace on the runes used here
IsSpace(r) == r \in {SP, TAB, CR, LF}

\* switch r
Plain(n, runes, i) ==
    IF runes[i] = Q THEN [Emit(n, Q) EXCEPT !.inString = TRUE]
    ELSE IF runes[i] = LF THEN Emit(handleNewline(n, runes, i), LF)
    ELSE IF runes[i] = "(" THEN Emit([n EXCEPT !.stack = Append(n.stack, "(")], "(")
    ELSE IF runes[i] = ")" /\ Len(n.stack) > 0 /\ n.stack[Len(n.stack)] = "(" THEN Emit(PopStack(n), ")")
    ELSE IF runes[i] = ")" THEN Emit(n, ")")
    ELSE IF runes[i] \in {"[", "{"} THEN Open(n, runes[i])
    ELSE IF runes[i] \in {"]", "}"} THEN Close(n, runes[i])
    ELSE IF IsSpace(runes[i]) THEN Emit(n, runes[i])
    ELSE markTopLevelToken(setLastSig(Emit(n, runes[i]), runes[i]))

\* the body of the loop for runes[i]
ScanRune(n, runes, i) ==
    IF n.inLineComment THEN InLineComment(n, runes, i)
    ELSE IF n.inBlockComment THEN InBlockComment(n, runes[i])
    ELSE IF n.inString THEN InString(n, runes[i])
    ELSE IF runes[i] = "#" THEN StartLineComment(n, "#")
    ELSE IF runes[i] = "/" /\ i + 1 <= Len(runes) /\ runes[i + 1] = "/" THEN StartLineComment(n, "/")
    ELSE IF runes[i] = "/" /\ i + 1 <= Len(runes) /\ runes[i + 1] = "*"
    THEN [Emit(n, "/") EXCEPT !.inBlockComment = TRUE]
    ELSE Plain(n, runes, i)

RECURSIVE Scan(_, _, _)
Scan(n, runes, i) ==
    IF i > Len(runes) THEN n.out ELSE Scan(ScanRune(n, runes, i), runes, i + 1)

NormalizeCommasInMultiline(input) ==
    IF ~Contains(input, LF) THEN input ELSE Scan(ScanStart, input, 1)

\* the runes short inputs are built from
NormChars == {LF, CR, "[", "]", "{", "1", "#", "=", SP, ","}

RECURSIVE InputsUpTo(_)
InputsUpTo(k) ==
    IF k = 0 THEN {<<>>}
    ELSE InputsUpTo(k - 1)
            \cup {Append(l, c) : l \in {t \in InputsUpTo(k - 1) : Len(t) = k - 1}, c \in NormChars}

\* longer inputs: the list and the map of the tests, a single line, nested
\* structures, strings, comments, and lines that end in or start with a
\* carriage return
LongInputs ==
    {<<"[", LF, SP, Q, "a", Q, LF, SP, "1", LF, SP, "t", LF, "]">>,
     <<"{", LF, "a", SP, "=", SP, "1", LF, "b", SP, "=", SP, "2", LF, "}">>,
     <<"[", "1", ",", SP, "2", "]">>,
     <<"o", "(", "{", LF, "a", "=", "s", LF, "b", "=", "n", LF, "}", ")">>,
     <<"[", LF, "[", LF, "1", LF, "2", LF, "]", LF, "{", LF, "a", "=", "1", LF, "}", LF, "]">>,
     <<"[", LF, "1", SP, "#", "c", LF, "2", SP, "/", "/", "c", LF, "3", LF, "]">>,
     <<"[", LF, "1", LF, "2", SP, "/", "*", LF, "*", "/", LF, "]">>,
     <<"[", LF, "1", LF, "2", SP, "=", SP, "#", LF, "]">>,
     <<"[", LF, Q, "a", LF, "backslash", Q, "b", Q, LF, "f", "(", "1", LF, ")", LF, "]">>,
     <<"{", LF, "a", LF, ":", "1", LF, "b", LF, "=", ">", "2", LF, "}">>,
     <<"[", LF, "1", CR, LF, "2", TAB, SP, "#", LF, "]", "}">>,
     <<"[", CR, LF, "1", CR, LF, "2", CR, LF, "]">>,
     <<"[", LF, "1", LF, "2", LF, CR, "]">>}

NormInputs == InputsUpTo(MaxInputLen) \cup LongInputs

NormStart ==
    /\ nIn = <<>>
    /\ nOnce = <<>>
    /\ nTwice = <<>>
    /\ nPc = 0

\* the function applied to the input
NormApply ==
    /\ nPc = 0
    /\ nOnce' = NormalizeCommasInMultiline(nIn)
    /\ nPc' = 1
    /\ UNCHANGED <<nIn, nTwice>>
    /\ UNCHANGED <<coreVars, syncVars, ccVars, watchVars, refVars, tabVars, snapVars, ejVars, resetVars, memoVars, litVars, deqVars, idxVars, loopVars, poolVars, tfdVars>>

\* the function applied to its own output
NormAgain ==
    /\ nPc = 1
    /\ nTwice' = NormalizeCommasInMultiline(nOnce)
    /\ nPc' = 2
    /\ UNCHANGED <<nIn, nOnce>>
    /\ UNCHANGED <<coreVars, syncVars, ccVars, watchVars, refVars, tabVars, snapVars, ejVars, resetVars, memoVars, litVars, deqVars, idxVars, loopVars, poolVars, tfdVars>>

NormNext ==
    \/ NormApply
    \/ NormAgain

-----------------------------------------------------------------------------
(* writeStateAtomicRaw called by the workers of PatchTargetedExactByFiles,  *)
(* and UpdatePersistentEvaluatorSnapshots at its end. The bytes of a write  *)
(* are told apart by the number of the write                                *)

\* state writes in a run
MaxWrites == 3

\* the goroutines that write the state: the workers of one batch
Writers == {"w1", "w2"}

\* no snapshot file
NoSnapshot == -1

SnapStart ==
    /\ snState = 0
    /\ snSnap = NoSnapshot
    /\ snLive = FALSE
    /\ snPc = [w \in Writers |-> "idle"]
    /\ snBytes = [w \in Writers |-> 0]
    /\ snTargets = [w \in Writers |-> FALSE]
    /\ snWrites = 0

\* json.Marshal, os.WriteFile of the temp file and os.Rename over the state
WriteRename(w) ==
    /\ snPc[w] = "idle"
    /\ snWrites < MaxWrites
    /\ snWrites' = snWrites + 1
    /\ snBytes' = [snBytes EXCEPT ![w] = snWrites + 1]
    /\ snState' = snWrites + 1
    /\ snPc' = [snPc EXCEPT ![w] = "renamed"]
    /\ UNCHANGED <<snSnap, snLive, snTargets>>
    /\ UNCHANGED <<coreVars, syncVars, ccVars, watchVars, refVars, tabVars, normVars, ejVars, resetVars, memoVars, litVars, deqVars, idxVars, loopVars, poolVars, tfdVars>>

\* UpdatePersistentEvaluatorSnapshots under peMu: the evaluators that are
\* not closed, bound to the state path and have a snapshot path
SnapshotCollect(w) ==
    /\ snPc[w] = "renamed"
    /\ snTargets' = [snTargets EXCEPT ![w] = snLive /\ snSnap # NoSnapshot]
    /\ snPc' = [snPc EXCEPT ![w] = "collected"]
    /\ UNCHANGED <<snState, snSnap, snLive, snBytes, snWrites>>
    /\ UNCHANGED <<coreVars, syncVars, ccVars, watchVars, refVars, tabVars, normVars, ejVars, resetVars, memoVars, litVars, deqVars, idxVars, loopVars, poolVars, tfdVars>>

\* UpdatePersistentEvaluatorSnapshots after peMu.Unlock: stateBytes written
\* to a temp file and renamed over the snapshot of each collected evaluator
SnapshotWrite(w) ==
    /\ snPc[w] = "collected"
    /\ snSnap' = IF snTargets[w] THEN snBytes[w] ELSE snSnap
    /\ snPc' = [snPc EXCEPT ![w] = "idle"]
    /\ snTargets' = [snTargets EXCEPT ![w] = FALSE]
    /\ UNCHANGED <<snState, snLive, snBytes, snWrites>>
    /\ UNCHANGED <<coreVars, syncVars, ccVars, watchVars, refVars, tabVars, normVars, ejVars, resetVars, memoVars, litVars, deqVars, idxVars, loopVars, poolVars, tfdVars>>

\* getOrStartPersistentEvaluator and ensureStarted: the state file copied
\* to the snapshot, the console started on it
EvaluatorStart ==
    /\ ~snLive
    /\ snLive' = TRUE
    /\ snSnap' = snState
    /\ UNCHANGED <<snState, snPc, snBytes, snTargets, snWrites>>
    /\ UNCHANGED <<coreVars, syncVars, ccVars, watchVars, refVars, tabVars, normVars, ejVars, resetVars, memoVars, litVars, deqVars, idxVars, loopVars, poolVars, tfdVars>>

\* ResetPersistentEvaluator: the evaluator taken out of peInstances and closed
EvaluatorReset ==
    /\ snLive
    /\ snLive' = FALSE
    /\ UNCHANGED <<snState, snSnap, snPc, snBytes, snTargets, snWrites>>
    /\ UNCHANGED <<coreVars, syncVars, ccVars, watchVars, refVars, tabVars, normVars, ejVars, resetVars, memoVars, litVars, deqVars, idxVars, loopVars, poolVars, tfdVars>>

SnapNext ==
    \/ \E w \in Writers : WriteRename(w)
    \/ \E w \in Writers : SnapshotCollect(w)
    \/ \E w \in Writers : SnapshotWrite(w)
    \/ EvaluatorStart
    \/ EvaluatorReset

-----------------------------------------------------------------------------
(* EvalJSON: the in-process evaluator, the persistent evaluator and the     *)
(* short-lived console, one call at a time                                  *)

\* calls of EvalJSON in a run
MaxEvals == 3

\* expressions handed to EvalJSON, trimmed: empty, a variable, a literal, a
\* resource reference and one that does not parse
EjExprs == {"", "var.a", "1", "null_resource.n.id", "max("}

\* TryEvalInProcess: the expression parses and evaluates to a wholly known
\* value with var and local only; hasVar says that variable a has a value
TryEvalInProcess(expr, hasVar) ==
    \/ expr = "1"
    \/ expr = "var.a" /\ hasVar

\* an expression terraform console can answer at all
EjParses(expr) == expr \notin {"", "max("}

Attempt(tier, ok) == [tier |-> tier, ok |-> ok]

\* what EvalJSON does after the attempts made so far: it returns at the
\* first success, and otherwise goes on to the next evaluator
ProceedsEverywhere(tried) ==
    IF tried = <<>> THEN "inproc"
    ELSE IF tried[Len(tried)].tier = "inproc" THEN "persistent"
    ELSE IF tried[Len(tried)].tier = "persistent" THEN "console"
    ELSE "ret"

NextTier(tried) ==
    IF tried = <<>> THEN "inproc"
    ELSE IF tried[Len(tried)].ok THEN "ret"
    ELSE IF tried[Len(tried)].tier = "inproc" THEN "persistent"
    ELSE IF tried[Len(tried)].tier = "persistent" THEN "console"
    ELSE "ret"

NoAnswer == [ok |-> FALSE, tier |-> "none"]

EjStart ==
    /\ ejPc = "idle"
    /\ ejExpr = ""
    /\ ejTried = <<>>
    /\ ejSpawned = {}
    /\ ejPool = FALSE
    /\ ejConsoleState = "none"
    /\ ejRes = NoAnswer
    /\ ejCalls = 0

\* EvalJSON entered: an expression that is empty after TrimSpace returns
\* (nil, false) at once
EjCall(expr) ==
    /\ ejPc = "idle"
    /\ ejCalls < MaxEvals
    /\ ejCalls' = ejCalls + 1
    /\ ejExpr' = expr
    /\ ejTried' = <<>>
    /\ ejSpawned' = {}
    /\ ejConsoleState' = "none"
    /\ ejRes' = NoAnswer
    /\ ejPc' = IF expr = "" THEN "ret" ELSE NextTier(<<>>)
    /\ UNCHANGED ejPool
    /\ UNCHANGED <<coreVars, syncVars, ccVars, watchVars, refVars, tabVars, normVars, snapVars, resetVars, memoVars, litVars, deqVars, idxVars, loopVars, poolVars, tfdVars>>

\* after an attempt: return its value, or go on
EjAfter(tried) ==
    /\ ejTried' = tried
    /\ ejPc' = NextTier(tried)
    /\ ejRes' = IF tried[Len(tried)].ok
                THEN [ok |-> TRUE, tier |-> tried[Len(tried)].tier]
                ELSE NoAnswer

\* TryEvalInProcess
EjInProcess ==
    /\ ejPc = "inproc"
    /\ \E hasVar \in BOOLEAN :
          EjAfter(Append(ejTried, Attempt("inproc", TryEvalInProcess(ejExpr, hasVar))))
    /\ UNCHANGED <<ejExpr, ejSpawned, ejPool, ejConsoleState, ejCalls>>
    /\ UNCHANGED <<coreVars, syncVars, ccVars, watchVars, refVars, tabVars, normVars, snapVars, resetVars, memoVars, litVars, deqVars, idxVars, loopVars, poolVars, tfdVars>>

\* getOrStartPersistentEvaluator and EvaluateJSON: ensureStarted starts the
\* subprocess when the evaluator has none, cmd.Start may fail, and a started
\* evaluator answers or not
EjPersistent ==
    /\ ejPc = "persistent"
    /\ \E starts \in BOOLEAN : \E answers \in BOOLEAN :
          /\ ejSpawned' = IF ejPool THEN ejSpawned ELSE ejSpawned \cup {"persistent"}
          /\ ejPool' = (ejPool \/ starts)
          /\ EjAfter(Append(ejTried,
                 Attempt("persistent", (ejPool \/ starts) /\ answers /\ EjParses(ejExpr))))
    /\ UNCHANGED <<ejExpr, ejConsoleState, ejCalls>>
    /\ UNCHANGED <<coreVars, syncVars, ccVars, watchVars, refVars, tabVars, normVars, snapVars, resetVars, memoVars, litVars, deqVars, idxVars, loopVars, poolVars, tfdVars>>

\* the short-lived console: StartConsoleSession on a copy of the state when
\* the state is a file and the copy succeeds, on the state path otherwise
EjConsole ==
    /\ ejPc = "console"
    /\ \E copied \in BOOLEAN : \E answers \in BOOLEAN :
          /\ ejConsoleState' = IF copied THEN "snapshot" ELSE "state"
          /\ ejSpawned' = ejSpawned \cup {"console"}
          /\ EjAfter(Append(ejTried, Attempt("console", answers /\ EjParses(ejExpr))))
    /\ UNCHANGED <<ejExpr, ejPool, ejCalls>>
    /\ UNCHANGED <<coreVars, syncVars, ccVars, watchVars, refVars, tabVars, normVars, snapVars, resetVars, memoVars, litVars, deqVars, idxVars, loopVars, poolVars, tfdVars>>

\* EvalJSON returned
EjReturn ==
    /\ ejPc = "ret"
    /\ ejPc' = "idle"
    /\ UNCHANGED <<ejExpr, ejTried, ejSpawned, ejPool, ejConsoleState, ejRes, ejCalls>>
    /\ UNCHANGED <<coreVars, syncVars, ccVars, watchVars, refVars, tabVars, normVars, snapVars, resetVars, memoVars, litVars, deqVars, idxVars, loopVars, poolVars, tfdVars>>

\* the persistent evaluator reset between calls
EjReset ==
    /\ ejPc = "idle"
    /\ ejPool
    /\ ejPool' = FALSE
    /\ UNCHANGED <<ejPc, ejExpr, ejTried, ejSpawned, ejConsoleState, ejRes, ejCalls>>
    /\ UNCHANGED <<coreVars, syncVars, ccVars, watchVars, refVars, tabVars, normVars, snapVars, resetVars, memoVars, litVars, deqVars, idxVars, loopVars, poolVars, tfdVars>>

EjNext ==
    \/ \E expr \in EjExprs : EjCall(expr)
    \/ EjInProcess
    \/ EjPersistent
    \/ EjConsole
    \/ EjReturn
    \/ EjReset

-----------------------------------------------------------------------------
(* ResetPersistentEvaluator and ResetAllPersistentEvaluators on the one     *)
(* evaluator of the pool                                                    *)

ResetStart ==
    /\ peInPool = TRUE
    /\ rsWaiting = {}

-----------------------------------------------------------------------------
(* evalMemo of patchAttrValueExactWithCtx and the stamp of the var-files.   *)
(* One resource attribute per expression; workDir does not change           *)

\* targeted patches in a run
MaxPatches == 3

\* var-file modifications in a run
MaxVarEdits == 2

\* the latest modification time a var-file gets
MaxMtime == 2

\* the largest size of a var-file
MaxSize == 1

\* the -var-file arguments, in order
VarFiles == <<"a.tfvars", "b.tfvars">>

VarFileSet == {VarFiles[k] : k \in 1..Len(VarFiles)}

\* the expressions of the patched attributes, and the var-file each reads
MemoExprs == {"var.a", "var.b"}

VarFileOf(expr) == IF expr = "var.a" THEN "a.tfvars" ELSE "b.tfvars"

\* a var-file os.Stat does not find
NoVarFile == [exists |-> FALSE, mt |-> 0, size |-> 0, content |-> 0]

\* the stamp without the modification times
computeVarsStampNoMtime(stat) ==
    [k \in 1..Len(SelectSeq(VarFiles, LAMBDA f : stat[f].exists)) |->
        <<SelectSeq(VarFiles, LAMBDA f : stat[f].exists)[k],
          stat[SelectSeq(VarFiles, LAMBDA f : stat[f].exists)[k]].size>>]

\* computeVarsStamp: path|mtime|size; of every var-file os.Stat finds
computeVarsStamp(stat) ==
    [k \in 1..Len(SelectSeq(VarFiles, LAMBDA f : stat[f].exists)) |->
        <<SelectSeq(VarFiles, LAMBDA f : stat[f].exists)[k],
          stat[SelectSeq(VarFiles, LAMBDA f : stat[f].exists)[k]].mt,
          stat[SelectSeq(VarFiles, LAMBDA f : stat[f].exists)[k]].size>>]

\* the key of evalMemo: workDir|varsStamp|type|name|attr|expr
VarsMemoKey(stat, expr) == <<computeVarsStamp(stat), expr>>

\* evalExprWithCtx, then EvalJSON: the value the var-file gives the variable,
\* nil when the var-file is not there
EvalWithVars(stat, expr) ==
    IF stat[VarFileOf(expr)].exists THEN stat[VarFileOf(expr)].content ELSE 0

NoPatch == [expr |-> "", evaluated |-> FALSE, val |-> 0, key |-> <<>>]

MemoStart ==
    /\ vfStat = [f \in VarFileSet |-> [exists |-> TRUE, mt |-> 0, size |-> 0, content |-> 1]]
    /\ vmMemo = <<>>
    /\ vmAt = <<>>
    /\ vmLast = NoPatch
    /\ vmPatches = 0
    /\ vmEdits = 0

\* a var-file is written: its modification time does not go back, and its
\* size and content are whatever was written
EditVarFile(f) ==
    /\ vmEdits < MaxVarEdits
    /\ vmEdits' = vmEdits + 1
    /\ \E mt \in 0..MaxMtime : \E size \in 0..MaxSize : \E content \in 1..2 :
          /\ mt >= vfStat[f].mt
          /\ <<mt, size>> # <<vfStat[f].mt, vfStat[f].size>> \/ ~vfStat[f].exists
          /\ vfStat' = [vfStat EXCEPT ![f] =
                           [exists |-> TRUE, mt |-> mt, size |-> size, content |-> content]]
    /\ UNCHANGED <<vmMemo, vmAt, vmLast, vmPatches>>
    /\ UNCHANGED <<coreVars, syncVars, ccVars, watchVars, refVars, tabVars, normVars, snapVars, ejVars, resetVars, litVars, deqVars, idxVars, loopVars, poolVars, tfdVars>>

\* a var-file is removed
RemoveVarFile(f) ==
    /\ vmEdits < MaxVarEdits
    /\ vfStat[f].exists
    /\ vmEdits' = vmEdits + 1
    /\ vfStat' = [vfStat EXCEPT ![f] = NoVarFile]
    /\ UNCHANGED <<vmMemo, vmAt, vmLast, vmPatches>>
    /\ UNCHANGED <<coreVars, syncVars, ccVars, watchVars, refVars, tabVars, normVars, snapVars, ejVars, resetVars, litVars, deqVars, idxVars, loopVars, poolVars, tfdVars>>

\* PatchTargetedExactByFiles on a file with one expression attribute:
\* computeVarsStamp, then patchAttrValueExactWithCtx, which takes the value
\* of the key from evalMemo or evaluates and stores what is not nil
PatchMemoized(expr) ==
    /\ vmPatches < MaxPatches
    /\ vmPatches' = vmPatches + 1
    /\ IF VarsMemoKey(vfStat, expr) \in DOMAIN vmMemo
       THEN /\ vmLast' = [expr |-> expr, evaluated |-> FALSE,
                          val |-> vmMemo[VarsMemoKey(vfStat, expr)],
                          key |-> VarsMemoKey(vfStat, expr)]
            /\ UNCHANGED <<vmMemo, vmAt>>
       ELSE /\ vmLast' = [expr |-> expr, evaluated |-> TRUE,
                          val |-> EvalWithVars(vfStat, expr),
                          key |-> VarsMemoKey(vfStat, expr)]
            /\ IF EvalWithVars(vfStat, expr) # 0
               THEN /\ vmMemo' = vmMemo @@ (VarsMemoKey(vfStat, expr) :> EvalWithVars(vfStat, expr))
                    /\ vmAt' = vmAt @@ (VarsMemoKey(vfStat, expr) :> vfStat)
               ELSE UNCHANGED <<vmMemo, vmAt>>
    /\ UNCHANGED <<vfStat, vmEdits>>
    /\ UNCHANGED <<coreVars, syncVars, ccVars, watchVars, refVars, tabVars, normVars, snapVars, ejVars, resetVars, litVars, deqVars, idxVars, loopVars, poolVars, tfdVars>>

MemoNext ==
    \/ \E f \in VarFileSet : EditVarFile(f)
    \/ \E f \in VarFileSet : RemoveVarFile(f)
    \/ \E expr \in MemoExprs : PatchMemoized(expr)

-----------------------------------------------------------------------------
(* extractLiteralsFromBody and the attributes PatchStateFromConfigLiterals  *)
(* writes for a resource that is not in the state yet                       *)

isMetaArg(k) ==
    k \in {"provider", "depends_on", "lifecycle", "count", "for_each", "provisioner",
           "connection"}

\* a body without attributes and blocks
EmptyBody == [attrs |-> <<>>, blocks |-> <<>>]

\* the attribute names of the resource bodies drawn
BodyAttrNames == {"count", "triggers", "depends_on"}

\* what a resource body says of one attribute: a constant or an expression
BodyAttrSpecs == {Lit(B(TRUE)), Expr("var.a")}

\* the nested blocks of the resource bodies drawn
NestedBlocks ==
    { [type |-> "lifecycle", labels |-> <<>>,
       body |-> [attrs |-> ("prevent_destroy" :> Lit(B(TRUE))), blocks |-> <<>>]],
      [type |-> "provisioner", labels |-> <<"local-exec">>,
       body |-> [attrs |-> ("command" :> Lit(S(<<"e">>))), blocks |-> <<>>]],
      [type |-> "dynamic", labels |-> <<"setting">>, body |-> EmptyBody],
      [type |-> "timeouts", labels |-> <<>>,
       body |-> [attrs |-> ("create" :> Expr("var.a")), blocks |-> <<>>]] }

\* the resource bodies drawn: any attributes, and up to two nested blocks
ResourceBodies ==
    { [attrs |-> a, blocks |-> b] :
        a \in UNION {[names -> BodyAttrSpecs] : names \in SUBSET BodyAttrNames},
        b \in {<<>>} \cup {<<x>> : x \in NestedBlocks}
                     \cup {<<x, y>> : x \in NestedBlocks, y \in NestedBlocks} }

\* the attributes extractLiteralsFromBody keeps: constant, and no meta-argument
LiteralKeys(body) ==
    {k \in DOMAIN body.attrs : ~isMetaArg(k) /\ body.attrs[k].kind = "lit"}

\* the block types extractLiteralsFromBody groups: all but dynamic and blank
GroupTypes(body) ==
    {body.blocks[i].type : i \in 1..Len(body.blocks)} \ {"dynamic", ""}

\* the first label of a block goes in as name when the block has no such key
WithName(m, labels) ==
    IF Len(labels) > 0 /\ "name" \notin DOMAIN m THEN m @@ ("name" :> S(<<labels[1]>>)) ELSE m

BlocksOfType(blocks, t) == SelectSeq(blocks, LAMBDA blk : blk.type = t)

RECURSIVE extractLiteralsFromBody(_)
extractLiteralsFromBody(body) ==
    [k \in LiteralKeys(body) \cup GroupTypes(body) |->
        IF k \in GroupTypes(body)
        THEN L([i \in 1..Len(BlocksOfType(body.blocks, k)) |->
                  M(WithName(extractLiteralsFromBody(BlocksOfType(body.blocks, k)[i].body),
                             BlocksOfType(body.blocks, k)[i].labels))])
        ELSE body.attrs[k].v]

LitStart ==
    /\ lbBody = EmptyBody
    /\ lbAttrs = <<>>
    /\ lbPc = 0

\* PatchStateFromConfigLiterals: parseModuleResources takes the attributes
\* of the block with extractLiteralsFromBody, and the resource, new to the
\* state, gets one instance with these attributes sanitized
PatchLiterals ==
    /\ lbPc = 0
    /\ lbAttrs' = sanitizeMap(extractLiteralsFromBody(lbBody))
    /\ lbPc' = 1
    /\ UNCHANGED lbBody
    /\ UNCHANGED <<coreVars, syncVars, ccVars, watchVars, refVars, tabVars, normVars, snapVars, ejVars, resetVars, memoVars, deqVars, idxVars, loopVars, poolVars, tfdVars>>

LitNext == PatchLiterals

-----------------------------------------------------------------------------
(* deepEqualJSONish called both ways on two JSON values                     *)

\* the values compared: nil, booleans, numbers, strings, slices and maps,
\* among them strings that read like the %v of another value
JsonValues ==
    { Null, B(TRUE), B(FALSE), N(0), N(1),
      S(<<"1">>), S(<<"t", "r", "u", "e">>), S(<<"a">>), S(<<"[", "a", "]">>),
      L(<<>>), L(<<S(<<"a">>)>>), L(<<N(1)>>), L(<<N(1), N(0)>>),
      M(<<>>), M("x" :> Null), M("y" :> Null), M("x" :> N(1)),
      M(("x" :> N(1)) @@ ("y" :> N(0))) }

DeqStart ==
    /\ dqA = Null
    /\ dqB = Null
    /\ dqAB = FALSE
    /\ dqBA = FALSE
    /\ dqPc = 0

DeqApply ==
    /\ dqPc = 0
    /\ dqAB' = deepEqualJSONish(dqA, dqB)
    /\ dqBA' = deepEqualJSONish(dqB, dqA)
    /\ dqPc' = 1
    /\ UNCHANGED <<dqA, dqB>>
    /\ UNCHANGED <<coreVars, syncVars, ccVars, watchVars, refVars, tabVars, normVars, snapVars, ejVars, resetVars, memoVars, litVars, idxVars, loopVars, poolVars, tfdVars>>

DeqNext == DeqApply

-----------------------------------------------------------------------------
(* BuildSymbolIndex and what its two callers do with its result: the index *)
(* RunConsoleCommand hands to RunREPL, and the index the refresher replaces *)

\* saves of .tf files in a run
MaxIdxEdits == 2

\* index builds in a run
MaxBuilds == 3

IndexedFiles == {"main.tf", "vars.tf"}

\* the variable names a file may declare
IndexedNames == {"a", "b"}

TfFile(name, parses) == [name |-> name, parses |-> parses]

\* BuildSymbolIndex: the partial index of what parsed, and the accumulated
\* error, which is not nil when a file did not parse
BuildSymbolIndex(files) ==
    [idx |-> {files[f].name : f \in {g \in IndexedFiles : files[g].parses}},
     err |-> \E f \in IndexedFiles : ~files[f].parses]

IdxStart ==
    /\ ixFiles = [f \in IndexedFiles |-> TfFile("a", TRUE)]
    /\ ixIndex = {}
    /\ ixPc = "boot"
    /\ ixEdits = 0
    /\ ixBuilds = 0

\* a .tf file under cwd is saved
IdxEdit(f) ==
    /\ ixEdits < MaxIdxEdits
    /\ ixEdits' = ixEdits + 1
    /\ \E name \in IndexedNames : \E parses \in BOOLEAN :
          /\ TfFile(name, parses) # ixFiles[f]
          /\ ixFiles' = [ixFiles EXCEPT ![f] = TfFile(name, parses)]
    /\ UNCHANGED <<ixIndex, ixPc, ixBuilds>>
    /\ UNCHANGED <<coreVars, syncVars, ccVars, watchVars, refVars, tabVars, normVars, snapVars, ejVars, resetVars, memoVars, litVars, deqVars, loopVars, poolVars, tfdVars>>

\* RunConsoleCommand: idx, err := BuildSymbolIndex(cwd); with an error the
\* REPL starts with an empty SymbolIndex
IdxStartup ==
    /\ ixPc = "boot"
    /\ ixPc' = "run"
    /\ ixBuilds' = ixBuilds + 1
    /\ ixIndex' = IF BuildSymbolIndex(ixFiles).err THEN {} ELSE BuildSymbolIndex(ixFiles).idx
    /\ UNCHANGED <<ixFiles, ixEdits>>
    /\ UNCHANGED <<coreVars, syncVars, ccVars, watchVars, refVars, tabVars, normVars, snapVars, ejVars, resetVars, memoVars, litVars, deqVars, loopVars, poolVars, tfdVars>>

\* the refresher after a change of a .tf file: the index is replaced only
\* when BuildSymbolIndex returned no error
IdxRefresh ==
    /\ ixPc = "run"
    /\ ixBuilds < MaxBuilds
    /\ ixBuilds' = ixBuilds + 1
    /\ ixIndex' = IF BuildSymbolIndex(ixFiles).err THEN ixIndex ELSE BuildSymbolIndex(ixFiles).idx
    /\ UNCHANGED <<ixFiles, ixPc, ixEdits>>
    /\ UNCHANGED <<coreVars, syncVars, ccVars, watchVars, refVars, tabVars, normVars, snapVars, ejVars, resetVars, memoVars, litVars, deqVars, loopVars, poolVars, tfdVars>>

IdxNext ==
    \/ \E f \in IndexedFiles : IdxEdit(f)
    \/ IdxStartup
    \/ IdxRefresh

-----------------------------------------------------------------------------
(* The main loop of RunREPL beside the refresher: a select on refreshNotify *)
(* with a default branch, then tty.Read, which returns when a key arrives   *)

LoopStart == mlPc = "select"

\* select { case <-refreshNotify: clearSuggestionList(); render(); continue
\* default: }, then n, err := tty.Read(readKey)
MainLoopSelect ==
    /\ mlPc = "select"
    /\ IF refreshNotify > 0
       THEN /\ refreshNotify' = refreshNotify - 1
            /\ mlPc' = "select"
       ELSE /\ mlPc' = "read"
            /\ UNCHANGED refreshNotify
    /\ UNCHANGED <<rfPc, rfSrc, rfSynced, rfTouched, rfChangedTF, rfState, rfIndex, rfDone>>
    /\ UNCHANGED <<coreVars, syncVars, ccVars, watchVars, tabVars, normVars, snapVars, ejVars, resetVars, memoVars, litVars, deqVars, idxVars, poolVars, tfdVars>>

\* the refresher and the main loop while the terminal delivers no byte:
\* tty.Read does not return
IdleNext ==
    \/ EditTF
    \/ EditVars
    \/ WatcherSignal
    \/ RfReceive
    \/ RfSync
    \/ RfLiterals
    \/ RfScan
    \/ RfTargeted
    \/ RfRestart
    \/ RfNotify
    \/ MainLoopSelect

-----------------------------------------------------------------------------
(* The pool peInstances under one key: getOrStartPersistentEvaluator,       *)
(* ensureStarted, readLoop's exit, Close and ResetPersistentEvaluator, with *)
(* callers of EvalJSON that hold the evaluator they got                     *)

\* evaluators made in a run
MaxEvaluators == 2

\* subprocesses started in a run
MaxProcs == 3

EvaluatorIds == 1..MaxEvaluators

ProcIds == 1..MaxProcs

NoEvaluator == [made |-> FALSE, started |-> FALSE, closed |-> FALSE, cmd |-> 0]

NoProc == [owner |-> 0, alive |-> FALSE, reader |-> FALSE]

\* the subprocesses that run
AliveProcs == {q \in ProcIds : plProc[q].alive}

PoolStart ==
    /\ plMap = 0
    /\ plEv = [e \in EvaluatorIds |-> NoEvaluator]
    /\ plProc = [q \in ProcIds |-> NoProc]
    /\ plHold = [c \in Callers |-> 0]

\* getOrStartPersistentEvaluator under peMu: the evaluator of the key unless
\* it is closed, else a new one that takes its place in the map
getOrStartPersistentEvaluator(c) ==
    /\ plHold[c] = 0
    /\ IF plMap # 0 /\ ~plEv[plMap].closed
       THEN /\ plHold' = [plHold EXCEPT ![c] = plMap]
            /\ UNCHANGED <<plMap, plEv>>
       ELSE \E e \in EvaluatorIds :
               /\ ~plEv[e].made
               /\ \A d \in EvaluatorIds : d < e => plEv[d].made
               /\ plEv' = [plEv EXCEPT ![e] = [NoEvaluator EXCEPT !.made = TRUE]]
               /\ plMap' = e
               /\ plHold' = [plHold EXCEPT ![c] = e]
    /\ UNCHANGED plProc
    /\ UNCHANGED <<coreVars, syncVars, ccVars, watchVars, refVars, tabVars, normVars, snapVars, ejVars, resetVars, memoVars, litVars, deqVars, idxVars, loopVars, tfdVars>>

\* ensureStarted under p.mu: nothing when p.started && p.cmd != nil &&
\* !p.closed
Running(ev) == ev.started /\ ev.cmd # 0 /\ ~ev.closed

\* pe.EvaluateJSON of the caller on the evaluator it holds: ensureStarted,
\* which starts a subprocess and its readLoop unless one runs, then the call
PoolEvaluate(c) ==
    /\ plHold[c] # 0
    /\ plHold' = [plHold EXCEPT ![c] = 0]
    /\ IF Running(plEv[plHold[c]])
       THEN UNCHANGED <<plEv, plProc>>
       ELSE \E q \in ProcIds :
               /\ plProc[q].owner = 0
               /\ \A r \in ProcIds : r < q => plProc[r].owner # 0
               /\ plProc' = [plProc EXCEPT ![q] =
                      [owner |-> plHold[c], alive |-> TRUE, reader |-> TRUE]]
               /\ plEv' = [plEv EXCEPT ![plHold[c]] =
                      [made |-> TRUE, started |-> TRUE, closed |-> FALSE, cmd |-> q]]
    /\ UNCHANGED plMap
    /\ UNCHANGED <<coreVars, syncVars, ccVars, watchVars, refVars, tabVars, normVars, snapVars, ejVars, resetVars, memoVars, litVars, deqVars, idxVars, loopVars, tfdVars>>

\* the subprocess ends by itself
PoolProcExit(q) ==
    /\ plProc[q].alive
    /\ plProc' = [plProc EXCEPT ![q].alive = FALSE]
    /\ UNCHANGED <<plMap, plEv, plHold>>
    /\ UNCHANGED <<coreVars, syncVars, ccVars, watchVars, refVars, tabVars, normVars, snapVars, ejVars, resetVars, memoVars, litVars, deqVars, idxVars, loopVars, tfdVars>>

\* readLoop after scanner.Scan() has returned false: p.closed = true
PoolReadLoopExit(q) ==
    /\ plProc[q].reader
    /\ ~plProc[q].alive
    /\ plProc' = [plProc EXCEPT ![q].reader = FALSE]
    /\ plEv' = [plEv EXCEPT ![plProc[q].owner].closed = TRUE]
    /\ UNCHANGED <<plMap, plHold>>
    /\ UNCHANGED <<coreVars, syncVars, ccVars, watchVars, refVars, tabVars, normVars, snapVars, ejVars, resetVars, memoVars, litVars, deqVars, idxVars, loopVars, tfdVars>>

\* Close: nothing when closed, else closed = true and p.cmd is killed
PoolClose(e) ==
    IF plEv[e].closed
    THEN UNCHANGED <<plEv, plProc>>
    ELSE /\ plEv' = [plEv EXCEPT ![e].closed = TRUE]
         /\ plProc' = IF plEv[e].cmd # 0
                      THEN [plProc EXCEPT ![plEv[e].cmd].alive = FALSE]
                      ELSE plProc

\* ResetPersistentEvaluator on a key that is in the map: delete, then Close
PoolReset ==
    /\ plMap # 0
    /\ plMap' = 0
    /\ PoolClose(plMap)
    /\ UNCHANGED plHold
    /\ UNCHANGED <<coreVars, syncVars, ccVars, watchVars, refVars, tabVars, normVars, snapVars, ejVars, resetVars, memoVars, litVars, deqVars, idxVars, loopVars, tfdVars>>

PoolNext ==
    \/ \E c \in Callers : getOrStartPersistentEvaluator(c)
    \/ \E c \in Callers : PoolEvaluate(c)
    \/ \E q \in ProcIds : PoolProcExit(q)
    \/ \E q \in ProcIds : PoolReadLoopExit(q)
    \/ PoolReset

-----------------------------------------------------------------------------
(* evalMemo of patchAttrValueExactWithCtx beside the evaluation context     *)
(* loadVarsAndLocals builds from the .tf files; the var-files do not change *)

\* saves of .tf files in a run
MaxTfEdits == 2

\* targeted patches in a run
MaxTfPatches == 3

\* the values a default or the literal of a local takes
TfValues == {1, 2}

\* the expressions of the patched attributes
TfExprs == {"var.a", "local.l"}

\* the one var-file: it sets variable b and is not touched
TfVarFile == [b |-> 1]

\* loadVarsAndLocals: the defaults of the variables that have one, overridden
\* by the var-files, and the locals evaluated over them
loadVarsAndLocals(tf) ==
    [vars |-> IF tf.default = 0 THEN TfVarFile ELSE [a |-> tf.default] @@ TfVarFile,
     locals |-> [l |-> tf.local]]

\* evalExprWithCtx: the value of the expression in the context, nil (0) for
\* a variable the context does not hold
evalExprWithCtx(ctx, expr) ==
    IF expr = "local.l" THEN ctx.locals.l
    ELSE IF "a" \in DOMAIN ctx.vars THEN ctx.vars.a ELSE 0

\* the key of evalMemo, workDir|varsStamp|type|name|attr|expr, where only
\* the expression differs between the two attributes
TfMemoKey(expr) == <<"workDir", "varsStamp", expr>>

TfdStart ==
    /\ tdTf = [default |-> 1, local |-> 1]
    /\ tdMemo = <<>>
    /\ tdLast = [expr |-> "", val |-> 0, evaluated |-> FALSE]
    /\ tdEdits = 0
    /\ tdPatches = 0

\* the user saves a .tf file with another default of variable a, or none
EditDefault(v) ==
    /\ tdEdits < MaxTfEdits
    /\ v # tdTf.default
    /\ tdTf' = [tdTf EXCEPT !.default = v]
    /\ tdEdits' = tdEdits + 1
    /\ UNCHANGED <<tdMemo, tdLast, tdPatches>>
    /\ UNCHANGED <<coreVars, syncVars, ccVars, watchVars, refVars, tabVars, normVars, snapVars, ejVars, resetVars, memoVars, litVars, deqVars, idxVars, loopVars, poolVars>>

\* the user saves a .tf file with another value of local l
EditLocal(v) ==
    /\ tdEdits < MaxTfEdits
    /\ v # tdTf.local
    /\ tdTf' = [tdTf EXCEPT !.local = v]
    /\ tdEdits' = tdEdits + 1
    /\ UNCHANGED <<tdMemo, tdLast, tdPatches>>
    /\ UNCHANGED <<coreVars, syncVars, ccVars, watchVars, refVars, tabVars, normVars, snapVars, ejVars, resetVars, memoVars, litVars, deqVars, idxVars, loopVars, poolVars>>

\* PatchTargetedExactByFiles on a file with one expression attribute: the
\* context of loadVarsAndLocals, then patchAttrValueExactWithCtx, which takes
\* the value of the key from evalMemo or evaluates and stores what is not nil
PatchTargetedTf(expr) ==
    /\ tdPatches < MaxTfPatches
    /\ tdPatches' = tdPatches + 1
    /\ IF TfMemoKey(expr) \in DOMAIN tdMemo
       THEN /\ tdLast' = [expr |-> expr, val |-> tdMemo[TfMemoKey(expr)], evaluated |-> FALSE]
            /\ UNCHANGED tdMemo
       ELSE /\ tdLast' = [expr |-> expr, val |-> evalExprWithCtx(loadVarsAndLocals(tdTf), expr),
                          evaluated |-> TRUE]
            /\ tdMemo' = IF evalExprWithCtx(loadVarsAndLocals(tdTf), expr) # 0
                         THEN tdMemo @@ (TfMemoKey(expr) :> evalExprWithCtx(loadVarsAndLocals(tdTf), expr))
                         ELSE tdMemo
    /\ UNCHANGED <<tdTf, tdEdits>>
    /\ UNCHANGED <<coreVars, syncVars, ccVars, watchVars, refVars, tabVars, normVars, snapVars, ejVars, resetVars, memoVars, litVars, deqVars, idxVars, loopVars, poolVars>>

TfdNext ==
    \/ \E v \in TfValues \cup {0} : EditDefault(v)
    \/ \E v \in TfValues : EditLocal(v)
    \/ \E expr \in TfExprs : PatchTargetedTf(expr)

-----------------------------------------------------------------------------
\* the other components before anything has happened
RestStart ==
    /\ SyncStart
    /\ CcStart
    /\ WatchStart
    /\ RefStart
    /\ ReplStart
    /\ NormStart
    /\ SnapStart
    /\ EjStart
    /\ ResetStart
    /\ MemoStart
    /\ LitStart
    /\ DeqStart
    /\ IdxStart
    /\ LoopStart
    /\ PoolStart
    /\ TfdStart

-----------------------------------------------------------------------------
(* The scratch synchronizer on its own *)

SyncInit ==
    /\ SyncStart
    /\ CoreStart
    /\ CcStart
    /\ WatchStart
    /\ RefStart
    /\ ReplStart
    /\ NormStart
    /\ SnapStart
    /\ EjStart
    /\ ResetStart
    /\ MemoStart
    /\ LitStart
    /\ DeqStart
    /\ IdxStart
    /\ LoopStart
    /\ PoolStart
    /\ TfdStart

SpecSync == SyncInit /\ [][SyncNext]_vars

-----------------------------------------------------------------------------
(* CompletionCandidates on its own: inputs drawn at Init, the function      *)
(* applied once                                                             *)

CcInit ==
    /\ ccLine \in CcLines
    /\ ccCursor \in CcCursors
    /\ ccIndex \in CcIndexes
    /\ ccOut = NoCandidates
    /\ ccPc = 0
    /\ CoreStart
    /\ SyncStart
    /\ WatchStart
    /\ RefStart
    /\ ReplStart
    /\ NormStart
    /\ SnapStart
    /\ EjStart
    /\ ResetStart
    /\ MemoStart
    /\ LitStart
    /\ DeqStart
    /\ IdxStart
    /\ LoopStart
    /\ PoolStart
    /\ TfdStart

SpecCc == CcInit /\ [][CcNext]_vars

\* the characters [A-Za-z0-9_-.:/]
TokenClass ==
    {"A", "B", "C", "D", "E", "F", "G", "H", "I", "J", "K", "L", "M",
     "N", "O", "P", "Q", "R", "S", "T", "U", "V", "W", "X", "Y", "Z",
     "a", "b", "c", "d", "e", "f", "g", "h", "i", "j", "k", "l", "m",
     "n", "o", "p", "q", "r", "s", "t", "u", "v", "w", "x", "y", "z",
     "0", "1", "2", "3", "4", "5", "6", "7", "8", "9",
     "_", "-", ".", ":", "/"}

\* C14: CompletionCandidates returns start and end with
\* 0 <= start <= cursor <= end <= len(line), the cursor being the end of the
\* line when it is out of range, and line[start:end] is the maximal run of
\* the characters [A-Za-z0-9_-.:/] around the cursor
C14_TokenRange ==
    ccPc = 1 =>
        /\ 0 <= ccOut.start
        /\ ccOut.start <= CursorIn(ccLine, ccCursor)
        /\ CursorIn(ccLine, ccCursor) <= ccOut.end
        /\ ccOut.end <= Len(ccLine)
        /\ \A i \in (ccOut.start + 1)..ccOut.end : ccLine[i] \in TokenClass
        /\ ccOut.start > 0 => ccLine[ccOut.start] \notin TokenClass
        /\ ccOut.end < Len(ccLine) => ccLine[ccOut.end + 1] \notin TokenClass

\* the cursor stands inside a token that has text on both sides of it, and
\* the token is cut out on both sides
C14_Witness ==
    /\ ccPc = 1
    /\ ccLine = <<" ", "a", ":">>
    /\ ccCursor = 2
    /\ ccOut.start = 1
    /\ ccOut.end = 3

\* C38: every candidate CompletionCandidates returns has the typed token
\* line[start:end], a bare category keyword taken with its dot, as a
\* case-insensitive prefix
C38_CandidatesExtendToken ==
    ccPc = 1 =>
        \A k \in 1..Len(ccOut.candidates) :
            HasPrefix(ToLower(ccOut.candidates[k]),
                      ToLower(FriendlyToken(TrimSpace(SubSeq(ccLine, ccOut.start + 1, ccOut.end)))))

\* the index list of a category starter
StarterList(s, kw) ==
    IF kw = VarDot THEN s.Variables
    ELSE IF kw = LocalDot THEN s.Locals
    ELSE IF kw = ModuleDot THEN s.Modules
    ELSE IF kw = DataDot THEN KeysOf(DOMAIN s.DataSource)
    ELSE s.Outputs

InSeq(x, list) == \E i \in 1..Len(list) : list[i] = x

\* C15: for a token without a dot, a category starter is a candidate exactly
\* when its index list is non-empty and the starter begins with the
\* lower-cased token
C15_StartersGated ==
    (ccPc = 1 /\ IndexOfChar(SubSeq(ccLine, ccOut.start + 1, ccOut.end), ".", 1) = -1) =>
        \A i \in 1..Len(Starters) :
            InSeq(Starters[i], ccOut.candidates) <=>
                /\ StarterList(ccIndex, Starters[i]) # <<>>
                /\ HasPrefix(Starters[i], ToLower(SubSeq(ccLine, ccOut.start + 1, ccOut.end)))

-----------------------------------------------------------------------------
(* The watcher on its own. The ticker keeps delivering, time keeps passing  *)
(* and the refresher keeps receiving from refreshCh                         *)

WatchInit ==
    /\ WatchStart
    /\ CoreStart
    /\ SyncStart
    /\ CcStart
    /\ RefStart
    /\ ReplStart
    /\ NormStart
    /\ SnapStart
    /\ EjStart
    /\ ResetStart
    /\ MemoStart
    /\ LitStart
    /\ DeqStart
    /\ IdxStart
    /\ LoopStart
    /\ PoolStart
    /\ TfdStart

SpecWatch ==
    /\ WatchInit
    /\ [][WatchNext]_vars
    /\ WF_vars(WatcherTick)
    /\ WF_vars(TimePasses)
    /\ WF_vars(RefreshTake)

\* a tracked file: a regular file with the extension .tf, .tfvars or .tf.json
\* that is not in a tree rooted at .terraform or .terraflow
TrackedFile(p) ==
    /\ \/ filepathExt(p) \in {"tf", "tfvars"}
       \/ Len(p.name) >= 3 /\ p.name[Len(p.name) - 1] = "tf" /\ p.name[Len(p.name)] = "json"
    /\ \A k \in 1..Len(p.dirs) : p.dirs[k] \notin {".terraform", ".terraflow"}

\* the file has been created or rewritten and no poll has looked at it since
ChangedUnseen(p) == wFiles[p].present /\ (~wFiles[p].known \/ wFiles[p].newer)

\* C29: a tracked file that has been created or rewritten, and is not deleted
\* again, leads to a refresh signal sent on refreshCh (the time since the
\* last signal is 0 again only when a signal has been sent)
C29_ChangeSignalled ==
    \A p \in WatchPaths :
        TrackedFile(p) =>
            ((ChangedUnseen(p) /\ wSince > 0) ~> (wSince = 0 \/ ~wFiles[p].present))

\* C30: while no tracked file has been created or rewritten, whatever is
\* written to the other files under dir, no refresh signal is sent
C30_OnlyTrackedSignal ==
    [][(\A p \in WatchPaths : TrackedFile(p) => wFiles[p] = WatchedFile(FALSE, FALSE, FALSE))
          => refreshCh' <= refreshCh]_vars

-----------------------------------------------------------------------------
(* The refresher on its own *)

RefInit ==
    /\ RefStart
    /\ CoreStart
    /\ SyncStart
    /\ CcStart
    /\ WatchStart
    /\ ReplStart
    /\ NormStart
    /\ SnapStart
    /\ EjStart
    /\ ResetStart
    /\ MemoStart
    /\ LitStart
    /\ DeqStart
    /\ IdxStart
    /\ LoopStart
    /\ PoolStart
    /\ TfdStart

SpecRef == RefInit /\ [][RefNext]_vars

\* C13: a refresh whose sync reported a change and no .tf change leaves the
\* symbol index as it is, and when it sends its notification the evaluated
\* attributes in state come from the files just mirrored
C13_VarsOnlyRefresh ==
    [][/\ (rfPc = "restart" /\ ~rfChangedTF) => rfIndex' = rfIndex
       /\ (rfPc = "notify" /\ rfPc' = "wait" /\ ~rfChangedTF) =>
              rfState.eval = rfSynced]_vars

\* C17: the stages of a refresh complete in the order sync, literal patch,
\* targeted evaluated patch, and a notification is sent to the REPL only when
\* all three have completed for the signal being handled
C17_NotifyAfterPipeline ==
    /\ [](\E n \in 0..Len(Pipeline) : rfDone = SubSeq(Pipeline, 1, n))
    /\ [][refreshNotify' > refreshNotify => rfDone = Pipeline]_vars

-----------------------------------------------------------------------------
(* The line editor on its own *)

ReplInit ==
    /\ repl \in {Editor(<<>>), Editor(<<OldCommand>>)}
    /\ readKey = <<>>
    /\ keyCount = 0
    /\ CoreStart
    /\ SyncStart
    /\ CcStart
    /\ WatchStart
    /\ RefStart
    /\ NormStart
    /\ SnapStart
    /\ EjStart
    /\ ResetStart
    /\ MemoStart
    /\ LitStart
    /\ DeqStart
    /\ IdxStart
    /\ LoopStart
    /\ PoolStart
    /\ TfdStart

SpecRepl == ReplInit /\ [][ReplNext]_vars

\* the keys that replace or edit the buffer: Ctrl+C, history Up and Down, a
\* typed character, backspace, a paste
BufferKeys ==
    {CtrlCKey, ArrowKey("A"), ArrowKey("B"), BackspaceKey, PastedNewline}
        \cup {<<c>> : c \in TypedChars}

\* C37: after a key that replaced or edited the buffer no TAB cycle is
\* selected, and an Enter that follows such a key does not put a candidate
\* of a cycle into the buffer
C37_EditCancelsCycle ==
    [][keyCount' # keyCount =>
          /\ (readKey' \in BufferKeys /\ repl'.buf # repl.buf) => repl'.lastTabIdx = -1
          /\ (readKey' = EnterKey /\ readKey \in BufferKeys) => ~Cycling(repl)]_vars

\* C40: in every state of the editor either no cycle is selected
\* (lastTabIdx = -1), or lastTabCands is not empty and lastTabIdx is an
\* index into it
C40_SelectionInRange ==
    \/ repl.lastTabIdx = -1
    \/ /\ Len(repl.lastTabCands) > 0
       /\ 0 <= repl.lastTabIdx
       /\ repl.lastTabIdx < Len(repl.lastTabCands)

\* a cycle over two candidates has gone through both and is back at the
\* first one
C40_Witness ==
    /\ Len(repl.lastTabCands) = 2
    /\ repl.lastTabIdx = 0
    /\ readKey = TabKey
    /\ keyCount = 4

\* C19: while a completion cycle is active, a TAB moves the selection one
\* candidate forward, wrapping to the first, and a Shift+TAB one candidate
\* back, wrapping to the last; neither changes the buffer, the candidates
\* or ends the cycle
C19_CycleTraversal ==
    [][/\ (Cycling(repl) /\ keyCount' # keyCount /\ readKey' = TabKey) =>
              /\ repl'.buf = repl.buf
              /\ repl'.lastTabCands = repl.lastTabCands
              /\ Cycling(repl')
              /\ repl'.lastTabIdx = (repl.lastTabIdx + 1) % Len(repl.lastTabCands)
       /\ (Cycling(repl) /\ keyCount' # keyCount /\ readKey' = ShiftTabKey) =>
              /\ repl'.buf = repl.buf
              /\ repl'.lastTabCands = repl.lastTabCands
              /\ Cycling(repl')
              /\ repl'.lastTabIdx =
                    (repl.lastTabIdx + Len(repl.lastTabCands) - 1) % Len(repl.lastTabCands)]_vars

-----------------------------------------------------------------------------
(* NormalizeCommasInMultiline on its own *)

NormInit ==
    /\ nIn \in NormInputs
    /\ nOnce = <<>>
    /\ nTwice = <<>>
    /\ nPc = 0
    /\ CoreStart
    /\ SyncStart
    /\ CcStart
    /\ WatchStart
    /\ RefStart
    /\ ReplStart
    /\ SnapStart
    /\ EjStart
    /\ ResetStart
    /\ MemoStart
    /\ LitStart
    /\ DeqStart
    /\ IdxStart
    /\ LoopStart
    /\ PoolStart
    /\ TfdStart

SpecNorm == NormInit /\ [][NormNext]_vars

\* C20: NormalizeCommasInMultiline applied to its own output returns that
\* output unchanged, and an input without a newline is returned unchanged
C20_NormalizeIdempotent ==
    /\ nPc = 2 => nTwice = nOnce
    /\ (nPc >= 1 /\ ~Contains(nIn, LF)) => nOnce = nIn

\* where a reader of HCL stands after the rune text[j]: in code, in a quoted
\* string ("str", "esc" after a backslash), in a line comment, or in a block
\* comment ("open" between its / and *, "star" after a * of its body)
LexAfter(mode, text, j) ==
    IF mode = "code"
    THEN IF text[j] = "#" THEN "line"
         ELSE IF text[j] = "/" /\ j < Len(text) /\ text[j + 1] = "/" THEN "line"
         ELSE IF text[j] = "/" /\ j < Len(text) /\ text[j + 1] = "*" THEN "open"
         ELSE IF text[j] = Q THEN "str"
         ELSE "code"
    ELSE IF mode = "line" THEN (IF text[j] = LF THEN "code" ELSE "line")
    ELSE IF mode = "open" THEN "block"
    ELSE IF mode = "block" THEN (IF text[j] = "*" THEN "star" ELSE "block")
    ELSE IF mode = "star"
    THEN (IF text[j] = "/" THEN "code" ELSE IF text[j] = "*" THEN "star" ELSE "block")
    ELSE IF mode = "esc" THEN "str"
    ELSE IF text[j] = "backslash" THEN "esc"
    ELSE IF text[j] = Q THEN "code"
    ELSE "str"

RECURSIVE CommasAdded(_, _, _, _, _)
\* output from position j on is input from position i on with commas put in,
\* each of them where the reader of the output stands in code
CommasAdded(input, output, i, j, mode) ==
    IF j > Len(output) THEN i > Len(input)
    ELSE \/ /\ i <= Len(input)
            /\ input[i] = output[j]
            /\ CommasAdded(input, output, i + 1, j + 1, LexAfter(mode, output, j))
         \/ /\ output[j] = ","
            /\ mode = "code"
            /\ CommasAdded(input, output, i, j + 1, mode)

\* C39: the output of NormalizeCommasInMultiline is its input with commas
\* inserted, none of them inside a string literal or a comment
C39_OnlyCommasInCode ==
    nPc >= 1 => CommasAdded(nIn, nOnce, 1, 1, "code")

-----------------------------------------------------------------------------
(* State writes and the evaluator snapshot on their own *)

SnapInit ==
    /\ SnapStart
    /\ CoreStart
    /\ SyncStart
    /\ CcStart
    /\ WatchStart
    /\ RefStart
    /\ ReplStart
    /\ NormStart
    /\ EjStart
    /\ ResetStart
    /\ MemoStart
    /\ LitStart
    /\ DeqStart
    /\ IdxStart
    /\ LoopStart
    /\ PoolStart
    /\ TfdStart

SpecSnap == SnapInit /\ [][SnapNext]_vars

\* C22: when no state write is in progress and a persistent evaluator bound
\* to the state path is live, its snapshot file holds the bytes of the state
\* file, that is of the most recent state write
C22_SnapshotCurrent ==
    (snLive /\ \A w \in Writers : snPc[w] = "idle") => snSnap = snState

-----------------------------------------------------------------------------
(* EvalJSON on its own *)

EjInit ==
    /\ EjStart
    /\ CoreStart
    /\ SyncStart
    /\ CcStart
    /\ WatchStart
    /\ RefStart
    /\ ReplStart
    /\ NormStart
    /\ SnapStart
    /\ ResetStart
    /\ MemoStart
    /\ LitStart
    /\ DeqStart
    /\ IdxStart
    /\ LoopStart
    /\ PoolStart
    /\ TfdStart

SpecEj == EjInit /\ [][EjNext]_vars

\* the evaluators in the order EvalJSON knows them
TierOrder == <<"inproc", "persistent", "console">>

\* C24: the evaluators a call of EvalJSON has tried are the first ones of
\* in-process, persistent, short-lived console, in that order; every one but
\* the last tried failed; the call returns the success of the last one tried
\* and nothing else; the persistent evaluator's subprocess is started only
\* after the in-process evaluator failed and the console's only after the
\* persistent evaluator failed, so a call answered in-process started none
C24_TiersInOrder ==
    /\ Len(ejTried) <= 3
    /\ \A k \in 1..Len(ejTried) :
          /\ ejTried[k].tier = TierOrder[k]
          /\ k < Len(ejTried) => ~ejTried[k].ok
    /\ ejRes.ok <=> (ejTried # <<>> /\ ejTried[Len(ejTried)].ok)
    /\ ejRes.ok => ejRes.tier = ejTried[Len(ejTried)].tier
    /\ "persistent" \in ejSpawned => (Len(ejTried) >= 2 /\ ~ejTried[1].ok)
    /\ "console" \in ejSpawned => (Len(ejTried) = 3 /\ ~ejTried[2].ok)
    /\ (ejConsoleState # "none") <=> ("console" \in ejSpawned)
    /\ (ejRes.ok /\ ejRes.tier = "inproc") => ejSpawned = {}

\* one call fell through to the short-lived console on a snapshot and got its
\* answer there, after the in-process and the persistent evaluator failed
C24_Witness ==
    /\ ejPc = "ret"
    /\ ejExpr = "null_resource.n.id"
    /\ Len(ejTried) = 3
    /\ ejRes = [ok |-> TRUE, tier |-> "console"]
    /\ ejSpawned = {"persistent", "console"}
    /\ ejConsoleState = "snapshot"



-----------------------------------------------------------------------------
(* The memo of the targeted patch on its own *)

MemoInit ==
    /\ MemoStart
    /\ CoreStart
    /\ SyncStart
    /\ CcStart
    /\ WatchStart
    /\ RefStart
    /\ ReplStart
    /\ NormStart
    /\ SnapStart
    /\ EjStart
    /\ ResetStart
    /\ LitStart
    /\ DeqStart
    /\ IdxStart
    /\ LoopStart
    /\ PoolStart
    /\ TfdStart

SpecMemo == MemoInit /\ [][MemoNext]_vars

\* what os.Stat tells of the var-files: path, presence, mtime and size
StatOf(stat) == [f \in VarFileSet |-> <<stat[f].exists, stat[f].mt, stat[f].size>>]

\* C26: a targeted patch returns a memoized value only when every var-file
\* has the modification time and size it had when the value was stored; a
\* patch that finds a var-file with another modification time or size than
\* at every store of the expression evaluates it
C26_MemoFollowsVarFiles ==
    [][vmPatches' # vmPatches =>
          /\ ~vmLast'.evaluated =>
                /\ vmLast'.key \in DOMAIN vmAt
                /\ StatOf(vmAt[vmLast'.key]) = StatOf(vfStat)
                /\ vmLast'.val = vmMemo[vmLast'.key]
          /\ (\A k \in DOMAIN vmAt : k[2] = vmLast'.expr => StatOf(vmAt[k]) # StatOf(vfStat)) =>
                /\ vmLast'.evaluated
                /\ vmLast'.val = EvalWithVars(vfStat, vmLast'.expr)]_vars

\* var.a was memoized, b.tfvars got another size at the same modification
\* time, and the next patch evaluated var.a again
C26_Witness ==
    /\ vmLast.expr = "var.a"
    /\ vmLast.evaluated
    /\ vmLast.val = 1
    /\ \E k \in DOMAIN vmAt :
          /\ k[2] = "var.a"
          /\ k # vmLast.key
          /\ vmAt[k]["a.tfvars"] = vfStat["a.tfvars"]
          /\ vmAt[k]["b.tfvars"].mt = vfStat["b.tfvars"].mt
          /\ vmAt[k]["b.tfvars"].size # vfStat["b.tfvars"].size

-----------------------------------------------------------------------------
(* PatchStateFromConfigLiterals on every resource body drawn *)

LitInit ==
    /\ lbBody \in ResourceBodies
    /\ lbAttrs = <<>>
    /\ lbPc = 0
    /\ CoreStart
    /\ SyncStart
    /\ CcStart
    /\ WatchStart
    /\ RefStart
    /\ ReplStart
    /\ NormStart
    /\ SnapStart
    /\ EjStart
    /\ ResetStart
    /\ MemoStart
    /\ DeqStart
    /\ IdxStart
    /\ LoopStart
    /\ PoolStart
    /\ TfdStart

SpecLit == LitInit /\ [][LitNext]_vars

\* C27: no key of the attributes the patch has written for the instance is a
\* meta-argument, be it an attribute or a nested block of the resource body
C27_NoMetaArgStored ==
    lbPc = 1 => \A k \in DOMAIN lbAttrs : ~isMetaArg(k)

-----------------------------------------------------------------------------
(* deepEqualJSONish on every pair of the values drawn *)

DeqInit ==
    /\ dqA \in JsonValues
    /\ dqB \in JsonValues
    /\ dqAB = FALSE
    /\ dqBA = FALSE
    /\ dqPc = 0
    /\ CoreStart
    /\ SyncStart
    /\ CcStart
    /\ WatchStart
    /\ RefStart
    /\ ReplStart
    /\ NormStart
    /\ SnapStart
    /\ EjStart
    /\ ResetStart
    /\ MemoStart
    /\ LitStart
    /\ IdxStart
    /\ LoopStart
    /\ PoolStart
    /\ TfdStart

SpecDeq == DeqInit /\ [][DeqNext]_vars

\* C28: deepEqualJSONish(a, b) is true exactly when a and b are the same JSON
\* value (values of two kinds, or maps of two key sets, never are), and it
\* answers the same with its arguments exchanged
C28_JsonEquivalence ==
    dqPc = 1 => /\ dqAB <=> (dqA = dqB)
                /\ dqAB <=> dqBA

-----------------------------------------------------------------------------
(* The completion index on its own *)

IdxInit ==
    /\ ixFiles \in [IndexedFiles -> {TfFile(n, p) : n \in IndexedNames, p \in BOOLEAN}]
    /\ ixIndex = {}
    /\ ixPc = "boot"
    /\ ixEdits = 0
    /\ ixBuilds = 0
    /\ CoreStart
    /\ SyncStart
    /\ CcStart
    /\ WatchStart
    /\ RefStart
    /\ ReplStart
    /\ NormStart
    /\ SnapStart
    /\ EjStart
    /\ ResetStart
    /\ MemoStart
    /\ LitStart
    /\ DeqStart
    /\ LoopStart
    /\ PoolStart
    /\ TfdStart

SpecIdx == IdxInit /\ [][IdxNext]_vars

\* C31: after the index build of startup or of a refresh, the index the REPL
\* completes against holds the symbols of every file that parses, whether
\* or not another file fails to parse
C31_PartialIndexKept ==
    [][ixBuilds' # ixBuilds =>
          \A f \in IndexedFiles : ixFiles[f].parses => ixFiles[f].name \in ixIndex']_vars

-----------------------------------------------------------------------------
(* The refresher beside an idle terminal *)

IdleInit ==
    /\ LoopStart
    /\ CoreStart
    /\ SyncStart
    /\ CcStart
    /\ WatchStart
    /\ RefStart
    /\ ReplStart
    /\ NormStart
    /\ SnapStart
    /\ EjStart
    /\ ResetStart
    /\ MemoStart
    /\ LitStart
    /\ DeqStart
    /\ IdxStart
    /\ PoolStart
    /\ TfdStart

\* the refresher goroutine and the main loop are goroutines the Go scheduler
\* runs whenever they can take a step
IdleFair ==
    /\ WF_vars(RfReceive)
    /\ WF_vars(RfSync)
    /\ WF_vars(RfLiterals)
    /\ WF_vars(RfScan)
    /\ WF_vars(RfTargeted)
    /\ WF_vars(RfRestart)
    /\ WF_vars(RfNotify)
    /\ WF_vars(MainLoopSelect)

SpecIdle == IdleInit /\ [][IdleNext]_vars /\ IdleFair

\* C33: with no keyboard input, a signal waiting in refreshCh is eventually
\* taken by the refresher, which then runs the sync
C33_SignalsConsumed == (refreshCh > 0) ~> (rfPc = "sync")

-----------------------------------------------------------------------------
(* The evaluator pool on its own *)

PoolInit ==
    /\ PoolStart
    /\ CoreStart
    /\ SyncStart
    /\ CcStart
    /\ WatchStart
    /\ RefStart
    /\ ReplStart
    /\ NormStart
    /\ SnapStart
    /\ EjStart
    /\ ResetStart
    /\ MemoStart
    /\ LitStart
    /\ DeqStart
    /\ IdxStart
    /\ LoopStart
    /\ TfdStart

SpecPool == PoolInit /\ [][PoolNext]_vars

\* C34: at most one subprocess of the key runs, and a subprocess that runs
\* belongs to the evaluator in the pool: none started by a discarded
\* evaluator outlives the reset
C34_OneSubprocessPerKey ==
    /\ Cardinality(AliveProcs) <= 1
    /\ \A q \in AliveProcs : plProc[q].owner = plMap

-----------------------------------------------------------------------------
(* The memo beside edits of the .tf files *)

TfdInit ==
    /\ tdTf \in [default : TfValues \cup {0}, local : TfValues]
    /\ tdMemo = <<>>
    /\ tdLast = [expr |-> "", val |-> 0, evaluated |-> FALSE]
    /\ tdEdits = 0
    /\ tdPatches = 0
    /\ CoreStart
    /\ SyncStart
    /\ CcStart
    /\ WatchStart
    /\ RefStart
    /\ ReplStart
    /\ NormStart
    /\ SnapStart
    /\ EjStart
    /\ ResetStart
    /\ MemoStart
    /\ LitStart
    /\ DeqStart
    /\ IdxStart
    /\ LoopStart
    /\ PoolStart

SpecTfd == TfdInit /\ [][TfdNext]_vars

\* C36: the value a targeted patch writes for an expression is the value the
\* expression has in the .tf files as they are at the patch
C36_MemoFollowsTfFiles ==
    [][tdPatches' # tdPatches =>
          tdLast'.val = evalExprWithCtx(loadVarsAndLocals(tdTf), tdLast'.expr)]_vars

-----------------------------------------------------------------------------

PatchInit ==
    /\ cfg = [f \in Files |-> <<>>]
    /\ modIndex \in ModIndexes
    /\ dirty = {}
    /\ stFile \in {NoFile} \cup RemoteStates
    /\ evalMemo = {}
    /\ jPc = [f \in Files |-> "idle"]
    /\ jIdx = [f \in Files |-> 0]
    /\ jNew = [f \in Files |-> NoFile]
    /\ started = FALSE
    /\ obs = NoObs
    /\ SanStart
    /\ sanX = Null
    /\ EvalStart
    /\ RestStart

TotalBlocks == Len(cfg["root"]) + Len(cfg["child"])

JobsIdle == \A f \in Files : jPc[f] = "idle"

\* the serial as a number, 0 when it is none
SerialNum(file) == IF file.serial.k = "num" THEN file.serial.n ELSE 0

\* the user adds a resource block to a file
AddBlock(f, rName, spec) ==
    /\ started
    /\ JobsIdle
    /\ TotalBlocks < MaxBlocks
    /\ cfg' = [cfg EXCEPT ![f] = Append(@, Block(NullResource, rName, spec))]
    /\ dirty' = dirty \cup {f}
    /\ obs' = Obs("edit", FALSE, FALSE, "", 0)
    /\ UNCHANGED <<modIndex, stFile, evalMemo, jPc, jIdx, jNew, started>>
    /\ UNCHANGED <<sanVars, evalVars, restVars>>

\* the user changes the attribute of a block
SetAttr(f, j, spec) ==
    /\ started
    /\ JobsIdle
    /\ j <= Len(cfg[f])
    /\ cfg[f][j].a # spec
    /\ cfg' = [cfg EXCEPT ![f][j].a = spec]
    /\ dirty' = dirty \cup {f}
    /\ obs' = IF /\ obs.op = "lit"
                 /\ cfg[f][j].a.kind = "lit"
                 /\ spec.kind = "lit"
                 /\ sanitizeValue(cfg[f][j].a.v) # sanitizeValue(spec.v)
              THEN Obs("edit1", FALSE, FALSE, f, j)
              ELSE Obs("edit", FALSE, FALSE, "", 0)
    /\ UNCHANGED <<modIndex, stFile, evalMemo, jPc, jIdx, jNew, started>>
    /\ UNCHANGED <<sanVars, evalVars, restVars>>

\* RunConsoleCommand before the REPL, when the program is started or started
\* again on files edited meanwhile: EnsureStateInitialized, then
\* PatchStateFromConfigEvaluatedFast; the batch evaluation may fail. The new
\* process has an empty evalMemo and takes no file for changed
StartupPatch ==
    /\ JobsIdle
    /\ SerialNum(stFile) < MaxSerial
    /\ \E ok \in BOOLEAN :
          \E r \in {PatchWith(stFile, FastConfigs(cfg, modIndex, ok))} :
              /\ stFile' = r.file
              /\ obs' = Obs("fast", r.wrote, r.merged # r.read, "", 0)
    /\ started' = TRUE
    /\ dirty' = {}
    /\ evalMemo' = {}
    /\ UNCHANGED <<cfg, modIndex, jPc, jIdx, jNew>>
    /\ UNCHANGED <<sanVars, evalVars, restVars>>

\* PatchStateFromConfig, called on its own; the expressions of the blocks
\* in okSet evaluate
PatchStateFromConfig ==
    /\ JobsIdle
    /\ SerialNum(stFile) < MaxSerial
    /\ \E okSet \in SUBSET {p \in AllBlocks(cfg) : cfg[p[1]][p[2]].a.kind = "expr"} :
          \E r \in {PatchWithCompare(stFile,
                          BuildResourceConfigsEvaluated(cfg, modIndex, okSet))} :
              /\ stFile' = r.file
              /\ obs' = Obs("cfg", r.wrote, r.merged # r.read, "", 0)
    /\ UNCHANGED <<cfg, modIndex, dirty, evalMemo, jPc, jIdx, jNew, started>>
    /\ UNCHANGED <<sanVars, evalVars, restVars>>

\* one round of the refresher up to the start of the workers:
\* PatchStateFromConfigLiterals, then one job per changed file. A batch of
\* PatchTargetedExactByFiles holds one job per file and runs three workers,
\* more than there are files, so every job has a worker of its own
Refresh ==
    /\ started
    /\ JobsIdle
    /\ SerialNum(stFile) < MaxSerial
    /\ \E r \in {PatchWith(stFile, BuildResourceConfigs(cfg, modIndex))} :
           /\ stFile' = r.file
           /\ obs' = Obs("lit", r.wrote, r.merged # r.read, "", 0)
    /\ jPc' = [f \in Files |-> IF f \in dirty /\ Len(cfg[f]) > 0 THEN "run" ELSE "idle"]
    /\ jIdx' = [f \in Files |-> IF f \in dirty /\ Len(cfg[f]) > 0 THEN 1 ELSE 0]
    /\ dirty' = {}
    /\ UNCHANGED <<cfg, modIndex, evalMemo, jNew, started>>
    /\ UNCHANGED <<sanVars, evalVars, restVars>>

\* the key of evalMemo (workDir and the stamp of the var files do not change)
MemoKey(blk, attr) == <<blk.type, blk.name, attr, blk[attr].e>>

\* a worker moves to the next block of its file, or its job ends
NextBlock(f) ==
    IF jIdx[f] < Len(cfg[f])
    THEN /\ jIdx' = [jIdx EXCEPT ![f] = @ + 1]
         /\ jPc' = [jPc EXCEPT ![f] = "run"]
    ELSE /\ jIdx' = [jIdx EXCEPT ![f] = 0]
         /\ jPc' = [jPc EXCEPT ![f] = "idle"]

\* patchAttrValueExactWithCtx up to the write of patchAttrWrite: the value of
\* the attribute (the literal, the memoized value, or the expression
\* evaluated in process and memoized), os.ReadFile of the state, the merge
WorkerRead(f) ==
    /\ jPc[f] = "run"
    /\ \E blk \in {cfg[f][jIdx[f]]} :
       \E val \in {IF blk.a.kind = "lit" THEN blk.a.v ELSE ConsoleValue(blk.a.e)} :
       \E r \in {patchAttrWrite(stFile, blk.type, blk.name, "a", val)} :
           /\ evalMemo' = IF blk.a.kind = "lit" THEN evalMemo
                          ELSE evalMemo \cup {MemoKey(blk, "a")}
           /\ IF val = Null \/ ~stFile.exists
              THEN /\ NextBlock(f)
                   /\ UNCHANGED <<jNew, obs>>
              ELSE IF r.write
              THEN /\ jPc' = [jPc EXCEPT ![f] = "write"]
                   /\ jNew' = [jNew EXCEPT ![f] = r.file]
                   /\ UNCHANGED <<jIdx, obs>>
              ELSE /\ NextBlock(f)
                   /\ obs' = Obs("attr", FALSE, r.merged # stFile.resources, "", 0)
                   /\ UNCHANGED jNew
    /\ UNCHANGED <<cfg, modIndex, dirty, stFile, started>>
    /\ UNCHANGED <<sanVars, evalVars, restVars>>

\* writeStateAtomicRaw of what the worker merged into the state it read
WorkerWrite(f) ==
    /\ jPc[f] = "write"
    /\ stFile' = jNew[f]
    /\ jNew' = [jNew EXCEPT ![f] = NoFile]
    /\ obs' = Obs("attr", TRUE, TRUE, "", 0)
    /\ NextBlock(f)
    /\ UNCHANGED <<cfg, modIndex, dirty, evalMemo, started>>
    /\ UNCHANGED <<sanVars, evalVars, restVars>>

PatchNext ==
    \/ \E f \in Files, spec \in AttrSpecs : \E rName \in NamesIn(f) : AddBlock(f, rName, spec)
    \/ \E f \in Files, j \in 1..MaxBlocks, spec \in AttrSpecs : SetAttr(f, j, spec)
    \/ StartupPatch
    \/ PatchStateFromConfig
    \/ Refresh
    \/ \E f \in Files : WorkerRead(f)
    \/ \E f \in Files : WorkerWrite(f)

SpecPatch == PatchInit /\ [][PatchNext]_vars

-----------------------------------------------------------------------------
(* Properties of the patcher *)

\* the key of a resource object of the state
KeyOfResource(res) == resourceKey(res.module, res.type, res.name)

\* the key of the resource a block of a file declares
KeyOfBlock(f, blk) == resourceKey(modulePathToString(ModulePath(f)), blk.type, blk.name)

\* the blocks the literal patch scans, as <<file, index>>
ScannedBlocks ==
    {p \in AllBlocks(cfg) : \E i \in 1..Len(ScannedFiles(modIndex)) :
                               ScannedFiles(modIndex)[i] = p[1]}

\* no two blocks of the configuration declare the same resource
UniqueKeys ==
    \A p, q \in AllBlocks(cfg) :
        KeyOfBlock(p[1], cfg[p[1]][p[2]]) = KeyOfBlock(q[1], cfg[q[1]][q[2]]) => p = q

\* C2: a literal patch that runs right after a literal patch, with no edit of
\* the configuration in between, leaves serial and the whole state file as
\* they are
C2_SecondPatchChangesNothing ==
    [][(obs.op = "lit" /\ obs'.op = "lit") => stFile' = stFile]_vars

\* C3: a patch writes the state (and bumps serial) if and only if the
\* resources it holds after its merge differ from the resources it read
C3_WriteIffContentChanges ==
    obs.op \in PatchOps => (obs.wrote <=> obs.differs)

\* C4: every step that changes an existing state file stores the serial that
\* follows the serial the file held (1 when that was missing or not
\* positive), so serial never decreases
C4_SerialBumpedByOne ==
    [][(stFile.exists /\ stFile' # stFile) =>
          /\ stFile'.serial = BumpSerial(stFile.serial)
          /\ SerialNum(stFile') >= SerialNum(stFile)]_vars

\* C21: at any time at most one worker of PatchTargetedExactByFiles is
\* between its read of the state file and the rename of its rewritten copy
C21_NoOverlappingWrites ==
    Cardinality({f \in Files : jPc[f] = "write"}) <= 1

\* C5: when one literal of one block was changed to a literal with another
\* sanitized value right after a literal patch, the blocks declare distinct
\* resources and the block is one the patch scans, then the next literal
\* patch raises serial, stores the new value in every instance of that
\* block's resource, and leaves every other resource object as it was
C5_OneLiteralChange ==
    [][(/\ obs.op = "edit1"
        /\ obs'.op = "lit"
        /\ UniqueKeys
        /\ <<obs.file, obs.idx>> \in ScannedBlocks) =>
          LET blk == cfg[obs.file][obs.idx]
              i == IndexOfKey(stFile'.resources, KeyOfBlock(obs.file, blk))
          IN  /\ SerialNum(stFile') > SerialNum(stFile)
              /\ i # 0
              /\ \A j \in 1..Len(stFile'.resources[i].instances) :
                    stFile'.resources[i].instances[j].attributes["a"] = sanitizeValue(blk.a.v)
              /\ Len(stFile'.resources) = Len(stFile.resources)
              /\ \A k \in 1..Len(stFile.resources) :
                    k # i => stFile'.resources[k] = stFile.resources[k]]_vars

\* C6: a resource object a step appends to the state has one instance, carries
\* the type, name and module of a block of the configuration, and is the only
\* managed object of the state with its key
C6_AppendedOncePerKey ==
    [][\A i \in (Len(stFile.resources) + 1)..Len(stFile'.resources) :
          LET o == stFile'.resources[i] IN
          /\ Len(o.instances) = 1
          /\ \E p \in AllBlocks(cfg) : KeyOfBlock(p[1], cfg[p[1]][p[2]]) = KeyOfResource(o)
          /\ \A k \in 1..(i - 1) :
                KeyOfResource(stFile'.resources[k]) # KeyOfResource(o)]_vars

\* C32: what a worker of the targeted patch merges for a block of a module
\* leaves the attribute values of every state object alone whose key (module,
\* type, name) is not the key of that block
C32_OnlyMatchingKeyPatched ==
    [][\A f \in Files :
          (jPc[f] = "run" /\ jPc'[f] = "write") =>
              \A i \in 1..Len(stFile.resources) :
                  KeyOfResource(stFile.resources[i]) # KeyOfBlock(f, cfg[f][jIdx[f]]) =>
                      /\ i <= Len(jNew'[f].resources)
                      /\ jNew'[f].resources[i].instances = stFile.resources[i].instances]_vars

RECURSIVE FullySanitized(_)
\* no string of v, at any depth, parses as JSON after strings.TrimSpace and
\* one strconv.Unquote
FullySanitized(v) ==
    CASE v.k = "str" ->
            LET t == TrimSpace(v.s)
                s == IF UnquoteOk(t) THEN Unquote(t) ELSE t
            IN  ~JsonValid(s)
      [] v.k = "seq" -> \A i \in 1..Len(v.e) : FullySanitized(v.e[i])
      [] v.k = "map" -> \A key \in DOMAIN v.m : FullySanitized(v.m[key])
      [] OTHER -> v.k \in {"null", "bool", "num"}

\* the value of attribute key of instance j of resource i of a state file,
\* None when there is no such resource, instance or attribute
AttrAt(file, i, j, key) ==
    IF i <= Len(file.resources) /\ j <= Len(file.resources[i].instances)
    THEN file.resources[i].instances[j].attributes[key]
    ELSE None

\* C8: every attribute value a step stores in the state (a value that was not
\* there before the step) is fully sanitized
C8_StoredValuesSanitized ==
    [][\A i \in 1..Len(stFile'.resources) :
          \A j \in 1..Len(stFile'.resources[i].instances) :
             \A key \in AttrKeys :
                LET v == AttrAt(stFile', i, j, key) IN
                (v # None /\ v # AttrAt(stFile, i, j, key)) => FullySanitized(v)]_vars

\* C9: after a whole patch (literal, evaluated or evaluated-fast) every
\* resource object of the state that a scanned block declares has a provider
C9_ProviderPresentAfterPatch ==
    obs.op \in {"lit", "cfg", "fast"} =>
        \A i \in 1..Len(stFile.resources) :
            (\E p \in ScannedBlocks :
                KeyOfBlock(p[1], cfg[p[1]][p[2]]) = KeyOfResource(stFile.resources[i]))
              => stFile.resources[i].provider # None

\* C10: no step changes the provider of a resource object that has one and
\* that the step leaves in the state, and a step that gives a provider to an
\* object without one gives it the address derived from the object's type
C10_ProviderKept ==
    [][\A i \in 1..Len(stFile.resources) :
          (/\ i <= Len(stFile'.resources)
           /\ KeyOfResource(stFile'.resources[i]) = KeyOfResource(stFile.resources[i])) =>
             IF stFile.resources[i].provider # None
             THEN stFile'.resources[i].provider = stFile.resources[i].provider
             ELSE stFile'.resources[i].provider \in
                     {None, providerAddressForType(stFile.resources[i].type)}]_vars

\* C11: once the state file exists, no step removes it or changes its lineage
C11_LineageKept ==
    [][stFile.exists => (stFile'.exists /\ stFile'.lineage = stFile.lineage)]_vars

\* a state file found at startup has been patched and then written by a
\* worker, and still carries its lineage
C11_Witness ==
    /\ stFile.lineage = "remote"
    /\ obs.op = "attr"
    /\ obs.wrote
    /\ SerialNum(stFile) >= 2

\* C23: when the global batch of PatchStateFromConfigEvaluatedFast does not
\* evaluate, the patch still stores, for every scanned block, the value of
\* each expression that evaluates on its own
C23_FallbackOnBatchFailure ==
    [][(/\ obs'.op = "fast"
        /\ stFile' = PatchWith(stFile, FastConfigs(cfg, modIndex, FALSE)).file) =>
          \A p \in ScannedBlocks :
              cfg[p[1]][p[2]].a.kind = "expr" =>
                  \E i \in 1..Len(stFile'.resources) :
                      /\ KeyOfResource(stFile'.resources[i]) = KeyOfBlock(p[1], cfg[p[1]][p[2]])
                      /\ \A j \in 1..Len(stFile'.resources[i].instances) :
                            AttrAt(stFile', i, j, "a") =
                                sanitizeValue(ConsoleValue(cfg[p[1]][p[2]].a.e))]_vars

-----------------------------------------------------------------------------
(* The persistent evaluator at work *)

EvalInit ==
    /\ EvalStart
    /\ SanStart
    /\ sanX = Null
    /\ PatchStart
    /\ RestStart

\* EvaluateJSON with an expression that is empty after TrimSpace: (nil, false)
EvalEmptyExpr(c) ==
    /\ cPc[c] = "idle"
    /\ cPc' = [cPc EXCEPT ![c] = "ret"]
    /\ UNCHANGED <<peStarted, peClosed, procAlive, stdinQ, stdoutQ, waiters, chanBuf,
                   chanClosed, rlPc, rlLine, cId, cExpr, cGot, cRes, nextId>>
    /\ UNCHANGED <<sanVars, patchVars, restVars>>

\* EvaluateJSON up to the id: ensureStarted (under p.mu) starts the subprocess
\* and the reader unless one is started and not closed; then uuid.NewString()
EvalBegin(c) ==
    /\ cPc[c] = "idle"
    /\ nextId < MaxCalls
    /\ \E expr \in Exprs : cExpr' = [cExpr EXCEPT ![c] = expr]
    /\ IF peStarted /\ ~peClosed
       THEN UNCHANGED <<peStarted, peClosed, procAlive, stdinQ, stdoutQ, rlPc>>
       ELSE /\ peStarted' = TRUE
            /\ peClosed' = FALSE
            /\ procAlive' = TRUE
            /\ stdinQ' = <<>>
            /\ stdoutQ' = <<>>
            /\ rlPc' = "scan"
    /\ nextId' = nextId + 1
    /\ cId' = [cId EXCEPT ![c] = nextId + 1]
    /\ cPc' = [cPc EXCEPT ![c] = "register"]
    /\ UNCHANGED <<waiters, chanBuf, chanClosed, rlLine, cGot, cRes>>
    /\ UNCHANGED <<sanVars, patchVars, restVars>>

\* EvaluateJSON: ch := make(chan string, 1); p.waiters[id] = ch (under respMu)
EvalRegister(c) ==
    /\ cPc[c] = "register"
    /\ waiters' = waiters \cup {cId[c]}
    /\ cPc' = [cPc EXCEPT ![c] = "write"]
    /\ UNCHANGED <<peStarted, peClosed, procAlive, stdinQ, stdoutQ, chanBuf, chanClosed,
                   rlPc, rlLine, cId, cExpr, cGot, cRes, nextId>>
    /\ UNCHANGED <<sanVars, patchVars, restVars>>

\* EvaluateJSON: io.WriteString(p.stdin, line) under p.mu; a write to the pipe
\* of a subprocess that has exited fails, and the call returns (nil, false)
EvalWrite(c) ==
    /\ cPc[c] = "write"
    /\ IF procAlive
       THEN /\ stdinQ' = Append(stdinQ, [id |-> cId[c], expr |-> cExpr[c]])
            /\ cPc' = [cPc EXCEPT ![c] = "await"]
            /\ UNCHANGED cRes
       ELSE /\ cPc' = [cPc EXCEPT ![c] = "ret"]
            /\ cRes' = [cRes EXCEPT ![c] = NoResult]
            /\ UNCHANGED stdinQ
    /\ UNCHANGED <<peStarted, peClosed, procAlive, stdoutQ, waiters, chanBuf, chanClosed,
                   rlPc, rlLine, cId, cExpr, cGot, nextId>>
    /\ UNCHANGED <<sanVars, patchVars, restVars>>

\* what EvaluateJSON returns for the line its channel handed it
ResultOfLine(line) ==
    IF line.json THEN [ok |-> TRUE, v |-> line.val] ELSE NoResult

\* EvaluateJSON: resp = <-ch, from the buffer or from the closed channel
EvalRecv(c) ==
    /\ cPc[c] = "await"
    /\ chanBuf[cId[c]] # <<>> \/ chanClosed[cId[c]]
    /\ LET line == IF chanBuf[cId[c]] # <<>> THEN Head(chanBuf[cId[c]]) ELSE EmptyLine
       IN  /\ cGot' = [cGot EXCEPT ![c] = line]
           /\ cRes' = [cRes EXCEPT ![c] = ResultOfLine(line)]
    /\ chanBuf' = [chanBuf EXCEPT ![cId[c]] = <<>>]
    /\ cPc' = [cPc EXCEPT ![c] = "ret"]
    /\ UNCHANGED <<peStarted, peClosed, procAlive, stdinQ, stdoutQ, waiters, chanClosed,
                   rlPc, rlLine, cId, cExpr, nextId>>
    /\ UNCHANGED <<sanVars, patchVars, restVars>>

\* a timeout that returns (nil, false) and leaves the waiter registered
EvalTimeoutKeepsWaiter(c) ==
    /\ cPc[c] = "await"
    /\ cRes' = [cRes EXCEPT ![c] = NoResult]
    /\ cPc' = [cPc EXCEPT ![c] = "ret"]
    /\ UNCHANGED <<peStarted, peClosed, procAlive, stdinQ, stdoutQ, waiters, chanBuf,
                   chanClosed, rlPc, rlLine, cId, cExpr, cGot, nextId>>
    /\ UNCHANGED <<sanVars, patchVars, restVars>>

\* EvaluateJSON: <-time.After(timeout): delete(p.waiters, id); (nil, false)
EvalTimeout(c) ==
    /\ cPc[c] = "await"
    /\ waiters' = waiters \ {cId[c]}
    /\ cRes' = [cRes EXCEPT ![c] = NoResult]
    /\ cPc' = [cPc EXCEPT ![c] = "ret"]
    /\ UNCHANGED <<peStarted, peClosed, procAlive, stdinQ, stdoutQ, chanBuf, chanClosed,
                   rlPc, rlLine, cId, cExpr, cGot, nextId>>
    /\ UNCHANGED <<sanVars, patchVars, restVars>>

\* EvaluateJSON has returned: the caller drops what the call held
EvalReturn(c) ==
    /\ cPc[c] = "ret"
    /\ cPc' = [cPc EXCEPT ![c] = "idle"]
    /\ cId' = [cId EXCEPT ![c] = 0]
    /\ cExpr' = [cExpr EXCEPT ![c] = ""]
    /\ cGot' = [cGot EXCEPT ![c] = EmptyLine]
    /\ cRes' = [cRes EXCEPT ![c] = NoResult]
    /\ UNCHANGED <<peStarted, peClosed, procAlive, stdinQ, stdoutQ, waiters, chanBuf,
                   chanClosed, rlPc, rlLine, nextId>>
    /\ UNCHANGED <<sanVars, patchVars, restVars>>

\* terraform console reads one line of stdin and prints its value
ConsoleAnswer ==
    /\ procAlive
    /\ stdinQ # <<>>
    /\ stdoutQ' = Append(stdoutQ, ResponseLine(Head(stdinQ)))
    /\ stdinQ' = Tail(stdinQ)
    /\ UNCHANGED <<peStarted, peClosed, procAlive, waiters, chanBuf, chanClosed, rlPc,
                   rlLine, cPc, cId, cExpr, cGot, cRes, nextId>>
    /\ UNCHANGED <<sanVars, patchVars, restVars>>

\* terraform console reads one line and fails on it: the error goes to stderr,
\* which is discarded, and stdout gets at most a prompt
ConsoleError ==
    /\ procAlive
    /\ stdinQ # <<>>
    /\ \/ stdoutQ' = Append(stdoutQ, NoiseLine)
       \/ UNCHANGED stdoutQ
    /\ stdinQ' = Tail(stdinQ)
    /\ UNCHANGED <<peStarted, peClosed, procAlive, waiters, chanBuf, chanClosed, rlPc,
                   rlLine, cPc, cId, cExpr, cGot, cRes, nextId>>
    /\ UNCHANGED <<sanVars, patchVars, restVars>>

\* the subprocess exits: its stdout ends after what it has printed
ConsoleExit ==
    /\ procAlive
    /\ procAlive' = FALSE
    /\ UNCHANGED <<peStarted, peClosed, stdinQ, stdoutQ, waiters, chanBuf, chanClosed,
                   rlPc, rlLine, cPc, cId, cExpr, cGot, cRes, nextId>>
    /\ UNCHANGED <<sanVars, patchVars, restVars>>

\* a reader that hands a line to whichever waiter is registered first
WaiterOldest(id) == IF waiters # {} THEN CHOOSE w \in waiters : \A u \in waiters : w <= u ELSE 0

\* readLoop: the waiter a line with this __id is for (nil when none)
WaiterFor(id) == IF id \in waiters THEN id ELSE 0

\* readLoop: scanner.Scan() returns a line; a JSON object with an __id takes
\* its waiter out of p.waiters (under respMu); any other line is skipped
ReadLoopScan ==
    /\ rlPc = "scan"
    /\ stdoutQ # <<>>
    /\ LET line == Head(stdoutQ)
           ch == IF line.json THEN WaiterFor(line.id) ELSE 0
       IN  /\ stdoutQ' = Tail(stdoutQ)
           /\ IF line.json
              THEN /\ waiters' = waiters \ {line.id}
                   /\ IF ch # 0
                      THEN rlPc' = "send" /\ rlLine' = [line |-> line, ch |-> ch]
                      ELSE UNCHANGED <<rlPc, rlLine>>
              ELSE UNCHANGED <<waiters, rlPc, rlLine>>
    /\ UNCHANGED <<peStarted, peClosed, procAlive, stdinQ, chanBuf, chanClosed, cPc, cId,
                   cExpr, cGot, cRes, nextId>>
    /\ UNCHANGED <<sanVars, patchVars, restVars>>

\* readLoop: ch <- line
ReadLoopSend ==
    /\ rlPc = "send"
    /\ Len(chanBuf[rlLine.ch]) < 1
    /\ chanBuf' = [chanBuf EXCEPT ![rlLine.ch] = Append(@, rlLine.line)]
    /\ rlPc' = "scan"
    /\ rlLine' = NoiseLine
    /\ UNCHANGED <<peStarted, peClosed, procAlive, stdinQ, stdoutQ, waiters, chanClosed,
                   cPc, cId, cExpr, cGot, cRes, nextId>>
    /\ UNCHANGED <<sanVars, patchVars, restVars>>

\* readLoop: scanner.Scan() returns false; every waiter is sent "" (if its
\* buffer has room) and closed, and p.waiters is emptied (under respMu)
ReadLoopDrain ==
    /\ rlPc = "scan"
    /\ stdoutQ = <<>>
    /\ ~procAlive
    /\ chanBuf' = [i \in Ids |->
                    IF i \in waiters /\ chanBuf[i] = <<>> THEN <<EmptyLine>> ELSE chanBuf[i]]
    /\ chanClosed' = [i \in Ids |-> chanClosed[i] \/ i \in waiters]
    /\ waiters' = {}
    /\ rlPc' = "drain"
    /\ UNCHANGED <<peStarted, peClosed, procAlive, stdinQ, stdoutQ, rlLine, cPc, cId,
                   cExpr, cGot, cRes, nextId>>
    /\ UNCHANGED <<sanVars, patchVars, restVars>>

\* readLoop: p.closed = true (under p.mu), and the goroutine ends
ReadLoopExit ==
    /\ rlPc = "drain"
    /\ peClosed' = TRUE
    /\ rlPc' = "none"
    /\ UNCHANGED <<peStarted, procAlive, stdinQ, stdoutQ, waiters, chanBuf, chanClosed,
                   rlLine, cPc, cId, cExpr, cGot, cRes, nextId>>
    /\ UNCHANGED <<sanVars, patchVars, restVars>>

EvalNext ==
    \/ \E c \in Callers : EvalEmptyExpr(c)
    \/ \E c \in Callers : EvalBegin(c)
    \/ \E c \in Callers : EvalRegister(c)
    \/ \E c \in Callers : EvalWrite(c)
    \/ \E c \in Callers : EvalRecv(c)
    \/ \E c \in Callers : EvalTimeout(c)
    \/ \E c \in Callers : EvalReturn(c)
    \/ ConsoleAnswer
    \/ ConsoleError
    \/ ConsoleExit
    \/ ReadLoopScan
    \/ ReadLoopSend
    \/ ReadLoopDrain
    \/ ReadLoopExit

SpecEval == EvalInit /\ [][EvalNext]_vars

\* C1: a call that returns (v, true) was handed the response line whose __id
\* is the id the call generated, and v is that line's __val; no channel ever
\* holds, and no reader is about to deliver, a line carrying another id
C1_ResponsesRoutedById ==
    /\ \A c \in Callers :
          cRes[c].ok => /\ cGot[c].json
                        /\ cGot[c].id = cId[c]
                        /\ cRes[c].v = cGot[c].val
                        /\ cRes[c].v = ConsoleValue(cExpr[c])
    /\ \A i \in Ids : \A k \in 1..Len(chanBuf[i]) :
          chanBuf[i][k].json => chanBuf[i][k].id = i
    /\ rlPc = "send" => rlLine.line.id = rlLine.ch

\* two calls were in flight together and both returned their own values
C1_Witness ==
    /\ \A c \in Callers : cRes[c].ok /\ cPc[c] = "ret"
    /\ cExpr["c1"] # cExpr["c2"]
    /\ cId["c1"] > cId["c2"]

\* C18: a call that leaves its wait without having received from its channel
\* (a timeout) is no longer registered, returns (nil, false), and leaves the
\* subprocess, its pipes and the reader as they are; and a response line
\* whose id has no registered waiter is dropped by the reader: no channel and
\* no call receives it
C18_TimeoutUnregisters ==
    [][/\ \A c \in Callers :
            (/\ cPc[c] = "await"
             /\ cPc'[c] = "ret"
             /\ ~chanClosed[cId[c]]
             /\ chanBuf'[cId[c]] = chanBuf[cId[c]]) =>
                /\ cId[c] \notin waiters'
                /\ cRes'[c] = NoResult
                /\ UNCHANGED <<procAlive, peStarted, peClosed, stdinQ, stdoutQ, rlPc>>
       /\ (/\ rlPc = "scan"
           /\ stdoutQ # <<>>
           /\ stdoutQ' = Tail(stdoutQ)
           /\ Head(stdoutQ).json
           /\ Head(stdoutQ).id \notin waiters) =>
              /\ rlPc' = "scan"
              /\ UNCHANGED <<chanBuf, cGot, cRes, procAlive>>]_vars

\* the call with id 1 timed out, the response to its request was read and
\* dropped, and the later call with id 2 got its value from the same
\* subprocess
C18_Witness ==
    /\ cPc["c1"] = "ret" /\ cId["c1"] = 1 /\ ~cRes["c1"].ok
    /\ 1 \notin waiters /\ ~chanClosed[1] /\ chanBuf[1] = <<>>
    /\ cPc["c2"] = "ret" /\ cId["c2"] = 2 /\ cRes["c2"].ok
    /\ procAlive /\ ~peClosed /\ rlPc = "scan"
    /\ stdinQ = <<>> /\ stdoutQ = <<>>

\* C35: the id of a call that has returned is not in waiters, and every id in
\* waiters is the id of a call that has registered and not yet returned
C35_WaitersAreCallsInProgress ==
    /\ \A c \in Callers : cPc[c] = "ret" => cId[c] \notin waiters
    /\ \A w \in waiters : \E c \in Callers : cId[c] = w /\ cPc[c] \in {"write", "await"}

-----------------------------------------------------------------------------
(* The persistent evaluator reset while calls are in flight *)

\* Close under p.mu: nothing when p.closed is set already; otherwise p.closed
\* is set, stdin is closed and the subprocess is killed and waited for. What
\* the subprocess had printed stays readable in the pipe of its stdout
EvaluatorClose ==
    IF peClosed \/ ~peStarted
    THEN UNCHANGED <<peClosed, procAlive, stdinQ>>
    ELSE /\ peClosed' = (peStarted \/ peClosed)
         /\ procAlive' = FALSE
         /\ stdinQ' = <<>>

\* ResetPersistentEvaluator, and ResetAllPersistentEvaluators with the one
\* evaluator in the pool: the entry is deleted under peMu, then Close
ResetPersistentEvaluator ==
    /\ peInPool
    /\ peInPool' = FALSE
    /\ rsWaiting' = {c \in Callers : cPc[c] = "await" /\ cId[c] \in waiters}
    /\ EvaluatorClose
    /\ UNCHANGED <<peStarted, stdoutQ, waiters, chanBuf, chanClosed, rlPc, rlLine,
                   cPc, cId, cExpr, cGot, cRes, nextId>>
    /\ UNCHANGED <<sanVars, patchVars>>
    /\ UNCHANGED <<syncVars, ccVars, watchVars, refVars, tabVars, normVars, snapVars, ejVars, memoVars, litVars, deqVars, idxVars, loopVars, poolVars, tfdVars>>

\* a call that starts after the reset gets another evaluator from
\* getOrStartPersistentEvaluator: this one gets no new call
ResetNext ==
    \/ \E c \in Callers : EvalEmptyExpr(c)
    \/ \E c \in Callers : peInPool /\ EvalBegin(c)
    \/ \E c \in Callers : EvalRegister(c)
    \/ \E c \in Callers : EvalWrite(c)
    \/ \E c \in Callers : EvalRecv(c)
    \/ \E c \in Callers : EvalTimeout(c)
    \/ \E c \in Callers : EvalReturn(c)
    \/ ConsoleAnswer
    \/ ConsoleError
    \/ ConsoleExit
    \/ ReadLoopScan
    \/ ReadLoopSend
    \/ ReadLoopDrain
    \/ ReadLoopExit
    \/ ResetPersistentEvaluator

\* the reader goroutine runs while it has something to do, and a caller
\* goes on: its timer fires if nothing else wakes it
ResetFair ==
    /\ WF_vars(ReadLoopScan \/ ReadLoopSend \/ ReadLoopDrain \/ ReadLoopExit)
    /\ \A c \in Callers :
          WF_vars(EvalRegister(c) \/ EvalWrite(c) \/ EvalRecv(c) \/ EvalTimeout(c))

SpecReset == EvalInit /\ [][ResetNext]_vars /\ ResetFair

\* C25: once the evaluator has been reset it is out of the pool, closed and
\* without a running subprocess; and every call that was waiting on it at the
\* reset comes to return, with (nil, false) and no response line but the
\* empty one
C25_ResetReleasesWaiters ==
    /\ [](~peInPool => (~procAlive /\ (peStarted => peClosed)))
    /\ [](\A c \in Callers :
            (c \in rsWaiting /\ cPc[c] = "ret") => (cRes[c] = NoResult /\ cGot[c] = EmptyLine))
    /\ \A c \in Callers :
          (c \in rsWaiting /\ cPc[c] = "await") ~> (cPc[c] = "ret")

-----------------------------------------------------------------------------
(* The sanitizer harness: inputs drawn at Init, the function applied twice *)

RECURSIVE StringsUpTo(_)
StringsUpTo(n) ==
    IF n = 0 THEN {<<>>}
    ELSE LET shorter == StringsUpTo(n - 1) IN
         shorter \cup {Append(s, c) : s \in {t \in shorter : Len(t) = n - 1}, c \in Chars}

SanStrings == {S(s) : s \in StringsUpTo(MaxStrLen)}

SanScalars == {Null, B(TRUE), B(FALSE), N(0), N(1)} \cup SanStrings

\* null, bool, number, string, and a sequence or a map holding one of them
SanInputs ==
    SanScalars
      \cup {L(<<x>>) : x \in SanScalars}
      \cup {M([a |-> x]) : x \in SanScalars}

SanInit ==
    /\ sanX \in SanInputs
    /\ SanStart
    /\ EvalStart
    /\ PatchStart
    /\ RestStart

SanApply ==
    /\ sanPc = 0
    /\ sanY' = sanitizeValue(sanX)
    /\ sanPc' = 1
    /\ UNCHANGED <<sanX, sanZ>>
    /\ UNCHANGED <<evalVars, patchVars, restVars>>

SanApplyAgain ==
    /\ sanPc = 1
    /\ sanZ' = sanitizeValue(sanY)
    /\ sanPc' = 2
    /\ UNCHANGED <<sanX, sanY>>
    /\ UNCHANGED <<evalVars, patchVars, restVars>>

SanNext == SanApply \/ SanApplyAgain

SpecSan == SanInit /\ [][SanNext]_vars

\* C7: sanitizeValue is idempotent: sanitizeValue(sanitizeValue(x)) = sanitizeValue(x)
C7_SanitizeIdempotent == sanPc = 2 => sanZ = sanY

=============================================================================
